---------------------------- MODULE Spec2Model ----------------------------
(***************************************************************************)
(* Embedded cover-art extractors of gen_art (ID3v2, FLAC, APEv2, MP4).     *)
(*                                                                         *)
(* Files and buffers are sequences of bytes (0..255).  A C unsigned        *)
(* integer of w bytes is a "word": the sequence of its w bytes, least      *)
(* significant first, so DWORD arithmetic is arithmetic modulo 2^32 and    *)
(* unsigned __int64 arithmetic is arithmetic modulo 2^64, whatever the     *)
(* size of the numbers involved.                                           *)
(***************************************************************************)
EXTENDS Integers, Sequences, FiniteSets, TLC

VARIABLES
    file,   \* the input file of the extraction call
    fpos,   \* the file pointer of its FileHandle (64-bit)
    id3,    \* locals of ID3v2_LoadCoverToBitmapA
    ape,    \* locals of APE_LoadCoverToBitmapA and Ape_ParseItems
    flac,   \* locals of FLAC_LoadCoverToBitmapA
    mp4,    \* locals of MP4_LoadCoverToBitmapA
    cw,     \* statics of the cover window, and where its handler stands
    ui      \* g_state of the UI host and the dialog's message queue

vars == <<file, fpos, id3, ape, flac, mp4, cw, ui>>

(***************************************************************************)
(* Words: unsigned fixed-width integers.                                   *)
(***************************************************************************)
RECURSIVE Nat2W(_, _)
\* the w-byte word holding the natural number v (v < 2^31)
Nat2W(v, w) == IF w = 0 THEN <<>> ELSE <<v % 256>> \o Nat2W(v \div 256, w - 1)

RECURSIVE AddC(_, _, _)
\* a + b + carry, truncated to the width of a
AddC(a, b, c) ==
    IF a = <<>> THEN <<>>
    ELSE LET s == Head(a) + Head(b) + c
         IN  <<s % 256>> \o AddC(Tail(a), Tail(b), s \div 256)

WAdd(a, b) == AddC(a, b, 0)

WNot(a) == [i \in 1..Len(a) |-> 255 - a[i]]

\* a - b modulo 2^(8 * width): unsigned subtraction wraps
WSub(a, b) == AddC(a, WNot(b), 1)

RECURSIVE WLt(_, _)
\* unsigned a < b, words of equal width
WLt(a, b) ==
    IF a = <<>> THEN FALSE
    ELSE LET n == Len(a)
         IN  IF a[n] # b[n] THEN a[n] < b[n]
             ELSE WLt(SubSeq(a, 1, n - 1), SubSeq(b, 1, n - 1))

WLe(a, b) == ~WLt(b, a)

\* zero extension (unsigned widening conversion)
ZExt(a, w) == a \o [i \in 1..(w - Len(a)) |-> 0]

\* sign extension (DWORD passed as LONG, widened to a 64-bit file offset)
SExt(a, w) == a \o [i \in 1..(w - Len(a)) |-> IF a[Len(a)] >= 128 THEN 255 ELSE 0]

IsNeg(a) == a[Len(a)] >= 128

\* the word is below 2^31, so that it is a natural number TLC can hold
IsSmall(a) == a[4] < 128 /\ \A i \in 5..Len(a) : a[i] = 0

W2Nat(a) == a[1] + 256 * a[2] + 65536 * a[3] + 16777216 * a[4]

\* sequencing: the value v, computed once, is handed to the rest F
Then(v, F(_)) == CHOOSE y \in {F(x) : x \in {v}} : TRUE

DW(v) == Nat2W(v, 4)
QW(v) == Nat2W(v, 8)

\* four bytes of memory that is not mapped
NoWord == <<0 - 1, 0 - 1, 0 - 1, 0 - 1>>

(***************************************************************************)
(* BinaryCodec (utils_common.h)                                            *)
(***************************************************************************)
\* big-endian 4 bytes -> DWORD
BE32(b) == <<b[4], b[3], b[2], b[1]>>

\* big-endian 3 bytes -> DWORD, high byte 0
BE24(b) == <<b[3], b[2], b[1], 0>>

\* big-endian 8 bytes -> unsigned __int64
BE64(b) == [i \in 1..8 |-> b[9 - i]]

\* little-endian 4 bytes -> DWORD
LE32(b) == <<b[1], b[2], b[3], b[4]>>

\* the 4 bytes taken as a plain big-endian number
SyncSafeToInt_AllBits(b) == BE32(b)

\* 4 bytes, 7 bits each -> DWORD (at most 2^28 - 1)
SyncSafeToInt(b) ==
    DW((b[1] % 128) * 2097152 + (b[2] % 128) * 16384 + (b[3] % 128) * 128 + (b[4] % 128))

(***************************************************************************)
(* FileHandle (utils_common.h): a file and its 64-bit file pointer.        *)
(*                                                                         *)
(* A file is the bytes pre, then fill bytes of value 170, then the bytes   *)
(* post: a long stretch of payload is counted, not stored.                 *)
(***************************************************************************)
Bytes(b) == [pre |-> b, fill |-> 0, post |-> <<>>]

FileLen(f) == Len(f.pre) + f.fill + Len(f.post)

\* the byte at offset i (from 0)
FileByte(f, i) ==
    IF i < Len(f.pre) THEN f.pre[i + 1]
    ELSE IF i < Len(f.pre) + f.fill THEN 170
    ELSE f.post[i - Len(f.pre) - f.fill + 1]

\* GetSize(): GetFileSize(h, NULL)
GetSize(f) == DW(FileLen(f))

\* Read(buf, n) succeeds iff ReadFile transfers n bytes: n bytes lie at the
\* file pointer, or n is 0 (a read of nothing succeeds wherever the pointer is)
ReadOk(f, pos, n) ==
    \/ n = DW(0)
    \/ WLe(WAdd(ZExt(pos, 9), ZExt(n, 9)), Nat2W(FileLen(f), 9))

\* the bytes a successful Read returns
ReadBytes(f, pos, n) == [k \in 1..W2Nat(n) |-> FileByte(f, W2Nat(pos) + k - 1)]

\* the file pointer after Read: advanced by the bytes actually transferred
ReadPos(f, pos, n) ==
    IF ReadOk(f, pos, n) THEN WAdd(pos, ZExt(n, 8))
    ELSE IF WLt(pos, QW(FileLen(f))) THEN QW(FileLen(f))
    ELSE pos

\* Seek(dist, FILE_CURRENT): dist is a LONG and SetFilePointer is called
\* without a high part; a move before offset 0 or to a position that does
\* not fit 32 bits fails and leaves the pointer where it was (the result is
\* not looked at)
SeekCur(pos, dist) ==
    LET np == WAdd(pos, SExt(dist, 8))
    IN  IF SubSeq(np, 5, 8) # <<0, 0, 0, 0>> THEN pos ELSE np

\* ReadAt(offset, buf, n): SetFilePointer to the 64-bit offset, then Read;
\* an offset of 2^63 or more is a negative seek, which fails
ReadAtOk(f, off, n) == ~IsNeg(off) /\ ReadOk(f, off, n)

(***************************************************************************)
(* The locals of an extractor that is not running.                         *)
(***************************************************************************)
NoPic == [fs |-> 0, p |-> 0, last |-> -1, crash |-> FALSE, decode |-> FALSE,
          far |-> FALSE, off |-> <<0, 0, 0, 0, 0, 0, 0, 0>>]

Id3Idle ==
    [pc |-> "idle", ver |-> 0, remaining |-> DW(0), frameSize |-> DW(0),
     isCover |-> FALSE, headerLen |-> 0, ok |-> FALSE,
     budget |-> DW(0), used |-> Nat2W(0, 5), over |-> FALSE,
     seen |-> {}, revisit |-> FALSE,
     alloc |-> <<>>, pic |-> NoPic, parsed |-> FALSE,
     hdrOff |-> QW(0), pics |-> {}, stop |-> "", left |-> Nat2W(0, 5)]

ApeIdle ==
    [pc |-> "idle", fSize |-> DW(0), absStart |-> DW(0), absFooter |-> DW(0),
     totalSize |-> DW(0), size |-> DW(0), pos |-> DW(0),
     bestOff |-> Nat2W(0, 5), bestSize |-> DW(0), bestRank |-> 99,
     bestFar |-> FALSE, hasBest |-> FALSE, ok |-> FALSE,
     zero |-> DW(0), span |-> <<255, 255, 255, 255>>, found |-> FALSE, mapped |-> DW(0),
     scanAlloc |-> -1, bodyAlloc |-> <<>>,
     item |-> [accepted |-> FALSE, valStart |-> DW(0), valSize |-> DW(0), rank |-> -1,
               keyStart |-> DW(0)],
     crash |-> FALSE, oob |-> FALSE, cands |-> {}, decodes |-> <<>>]

NoFlacPic ==
    [called |-> FALSE, picType |-> DW(0), pData |-> 0, dataLen |-> DW(0),
     pTo |-> 0, lenTo |-> DW(0), L |-> DW(0), decoded |-> FALSE]

FlacIdle ==
    [pc |-> "idle", ptrW |-> 4,
     hasFallback |-> FALSE, ok |-> FALSE, crash |-> FALSE, oob |-> FALSE,
     alloc |-> <<>>, shortRead |-> FALSE, retOff |-> <<>>, fbOff |-> <<>>,
     pic |-> NoFlacPic, blocks |-> <<>>, short |-> {}, noMem |-> FALSE,
     sigOff |-> QW(0)]

\* the cover window before its first message: no view (s_view), no bitmap,
\* no path, no retry; calls, rets and beside are the history of the handler's extractor calls
\* path is the path the handler works on, track the file behind the path "a"
\* of the playlist, tagged says the tagger has written the file behind path
\* "b"; hbmPath (the path s_hbm was loaded for) and attempts (the extraction
\* attempts of the retry timer since the last load) are history
CwIdle ==
    [pc |-> "idle", mode |-> "none", ext |-> <<>>, build |-> 8,
     view |-> FALSE,
     lastPath |-> "", hbm |-> "", retryTries |-> 0, retryOn |-> FALSE,
     calls |-> <<>>, rets |-> <<>>, beside |-> FALSE,
     path |-> "", hbmPath |-> "", attempts |-> 0,
     track |-> Bytes(<<>>), tagged |-> FALSE]

\* g_state of the UI host: dlg says the album-art dialog exists, queued counts
\* the WM_APT_REFRESH messages in its queue; owed (history) counts the
\* playing-file and playlist-modified events that arrived while the dialog
\* exists and since it last handled a WM_APT_REFRESH
UiIdle == [dlg |-> FALSE, refreshPosted |-> 0, queued |-> 0, owed |-> 0]

NoMp4Img == [tried |-> FALSE, off |-> QW(0), len |-> QW(0), boxOff |-> QW(0)]

Mp4Idle ==
    [pc |-> "idle", ext |-> <<>>, stage |-> "ftyp", pos |-> QW(0), limit |-> QW(0),
     ok |-> FALSE, hdrs |-> {}, chain |-> <<>>, alloc |-> <<>>, img |-> NoMp4Img,
     tries |-> {}]

(***************************************************************************)
(* Image decode collaborator (image_loader.cpp): the signature screen is   *)
(* code of the repository; the pixel decoders behind it (OLE, GDI+) are    *)
(* external and may accept or reject any payload that passes the screen.   *)
(***************************************************************************)
kMaxImageBytes == 33554432

Prefix(b, sig) == Len(b) >= Len(sig) /\ SubSeq(b, 1, Len(sig)) = sig

LooksLikeJPEG(b) ==
    /\ Len(b) >= 4
    /\ b[1] = 255 /\ b[2] = 216 /\ b[3] = 255
    /\ \/ (b[4] >= 224 /\ b[4] <= 239)
       \/ b[4] = 219
       \/ (b[4] >= 192 /\ b[4] <= 207 /\ b[4] # 200)

LooksLikePNG(b) == Prefix(b, <<137, 80, 78, 71, 13, 10, 26, 10>>)

LooksLikeGIF(b) ==
    \/ Prefix(b, <<71, 73, 70, 56, 55, 97>>)
    \/ Prefix(b, <<71, 73, 70, 56, 57, 97>>)

LooksLikeBMP(b) ==
    /\ Len(b) >= 14 /\ b[1] = 66 /\ b[2] = 77
    /\ (Len(b) >= 18 => ~WLt(<<b[15], b[16], b[17], b[18]>>, DW(12)))

LooksLikeICO(b) ==
    /\ Len(b) >= 6
    /\ b[1] = 0 /\ b[2] = 0
    /\ b[3] = 1 /\ b[4] = 0
    /\ (b[5] # 0 \/ b[6] # 0)

LooksLikeKnownImage(b) ==
    LooksLikeJPEG(b) \/ LooksLikePNG(b) \/ LooksLikeGIF(b) \/ LooksLikeBMP(b) \/ LooksLikeICO(b)

\* the signature screen looks at no more than the first 18 bytes of a payload
SigBytes == 18

\* Img_LoadFromMemoryToBitmap(buf, sz): head holds the first min(sz, SigBytes)
\* bytes at buf, sz is the DWORD length, pixelOk the external decoders' verdict
Img_LoadFromMemoryToBitmap(head, sz, pixelOk) ==
    /\ sz # DW(0)
    /\ WLe(sz, DW(kMaxImageBytes))
    /\ LooksLikeKnownImage(head)
    /\ pixelOk

\* the first min(Len(b), SigBytes) bytes of a payload held in memory
HeadOf(b) == SubSeq(b, 1, IF Len(b) < SigBytes THEN Len(b) ELSE SigBytes)

(***************************************************************************)
(* ID3v2 extractor (Extensions/id3v2_reader.cpp)                           *)
(***************************************************************************)
\* Memory as SkipEncodedString sees it: the frame body buffer followed by
\* the readable bytes that happen to lie behind it on the heap; a read past
\* those is an access violation.
RECURSIVE SkipNarrow(_, _, _, _, _, _)
\* enc other than 1, 2: for (i = 0; i < cb; ++i) if (p[i] == 0) return i + 1;
\* q is the index of p[0] in mem; huge says cb wrapped below zero (cb >= 2^31);
\* hi is the highest index read so far
SkipNarrow(mem, q, i, cb, huge, hi) ==
    IF ~huge /\ i >= cb THEN [ret |-> cb, crash |-> FALSE, last |-> hi]
    ELSE IF q + i >= Len(mem) THEN [ret |-> 0, crash |-> TRUE, last |-> q + i]
    ELSE IF mem[q + i + 1] = 0 THEN [ret |-> i + 1, crash |-> FALSE, last |-> q + i]
    ELSE SkipNarrow(mem, q, i + 1, cb, huge, q + i)

\* a scan for the first zero byte, whatever the encoding
SkipWide_FirstZero(mem, q, i, cb, huge, hi) == SkipNarrow(mem, q, i, cb, huge, hi)

RECURSIVE SkipWide(_, _, _, _, _, _)
\* enc 1 or 2: for (i = 0; i + 1 < cb; i += 2) if (p[i] == 0 && p[i+1] == 0) return i + 2;
SkipWide(mem, q, i, cb, huge, hi) ==
    IF ~huge /\ i + 1 >= cb THEN [ret |-> cb, crash |-> FALSE, last |-> hi]
    ELSE IF q + i >= Len(mem) THEN [ret |-> 0, crash |-> TRUE, last |-> q + i]
    ELSE IF mem[q + i + 1] # 0 THEN SkipWide(mem, q, i + 2, cb, huge, q + i)
    ELSE IF q + i + 1 >= Len(mem) THEN [ret |-> 0, crash |-> TRUE, last |-> q + i + 1]
    ELSE IF mem[q + i + 2] = 0 THEN [ret |-> i + 2, crash |-> FALSE, last |-> q + i + 1]
    ELSE SkipWide(mem, q, i + 2, cb, huge, q + i + 1)

\* SkipEncodedString(&buf[q], frameSize - q, enc) for a body of fs bytes:
\* cb = fs - q as a DWORD, which is huge when q > fs
SkipEncodedString(mem, q, fs, enc) ==
    IF q = fs THEN [ret |-> 0, crash |-> FALSE, last |-> -1]
    ELSE IF enc = 1 \/ enc = 2 THEN SkipWide(mem, q, 0, fs - q, q > fs, -1)
    ELSE SkipNarrow(mem, q, 0, fs - q, q > fs, -1)

\* while (p < frameSize && buf[p] != 0) ++p;  started at p = 1
MimeEnd(buf) ==
    LET fs == Len(buf)
        Z  == {j \in 1..(fs - 1) : buf[j + 1] = 0}
    IN  IF Z # {} THEN CHOOSE j \in Z : \A k \in Z : j <= k
        ELSE IF fs > 1 THEN fs ELSE 1

Max2(a, b) == IF a >= b THEN a ELSE b

\* Lines 130-149: the walk over a picture frame body that was read whole.
\* p      the offset handed to the decoder (when decode is TRUE)
\* last   the highest byte index of buf that was read (-1: none)
\* crash  a read fell outside readable memory
\* far    p and last are the least the walk can have (see Id3Far)
ParsePicture(buf, slack, ver) ==
    LET mem == buf \o slack
        fs  == Len(buf)
    IN  IF Len(mem) = 0
        THEN [p |-> 1, last |-> 0, crash |-> TRUE, decode |-> FALSE, far |-> FALSE]
        ELSE
        LET enc  == mem[1]
            p1   == IF ver = 2 THEN 5 ELSE MimeEnd(buf) + 2
            mlast == IF ver = 2 THEN 0
                     ELSE IF fs > 1 THEN (IF MimeEnd(buf) < fs THEN MimeEnd(buf) ELSE fs - 1)
                     ELSE 0
            sk   == SkipEncodedString(mem, p1, fs, enc)
            p2   == p1 + sk.ret
        IN  [p      |-> p2,
             last   |-> Max2(mlast, sk.last),
             crash  |-> sk.crash,
             decode |-> ~sk.crash /\ p2 < fs,
             far    |-> FALSE]


(***************************************************************************)
(* Input files of the ID3v2 extractor: a 10-byte tag header followed by    *)
(* at most MaxFrames records drawn from a catalogue of frames (well        *)
(* formed, truncated, oversized, padding).                                 *)
(***************************************************************************)
MaxFrames == 3

RECURSIVE Flatten(_)
Flatten(ss) == IF ss = <<>> THEN <<>> ELSE Head(ss) \o Flatten(Tail(ss))

RECURSIVE SeqsUpTo(_, _)
\* all sequences over S of length at most n
SeqsUpTo(S, n) ==
    IF n = 0 THEN {<<>>}
    ELSE LET R == SeqsUpTo(S, n - 1)
         IN  R \cup {Append(r, x) : r \in {q \in R : Len(q) = n - 1}, x \in S}

JpegStub == <<255, 216, 255, 224>>

\* ID3v2.3 / 2.4 records: "TIT2" and "APIC" frames, an extended header, padding
FramesV34 ==
    { <<84, 73, 84, 50,  0, 0, 0, 0,  0, 0>>,
      <<84, 73, 84, 50,  0, 0, 0, 3,  0, 0,  65, 66, 67>>,
      <<84, 73, 84, 50,  255, 255, 255, 236,  0, 0>>,
      <<65, 80, 73, 67,  0, 0, 0, 10,  0, 0,  0, 105, 0, 3, 100, 0>> \o JpegStub,
      <<65, 80, 73, 67,  0, 0, 0, 3,  0, 0,  0, 105, 106>>,
      <<65, 80, 73, 67,  0, 0, 0, 0,  0, 0>>,
      <<65, 80, 73, 67,  64, 0, 0, 0,  0, 0>>,
      <<0, 0, 0, 10,  0, 0, 0, 0,  0, 0>> }

\* ID3v2.2 records: "TT2" and "PIC" frames, padding
FramesV2 ==
    { <<84, 84, 50,  0, 0, 0>>,
      <<84, 84, 50,  0, 0, 3,  65, 66, 67>>,
      <<80, 73, 67,  0, 0, 10,  0, 74, 80, 71, 3, 0>> \o JpegStub,
      <<80, 73, 67,  0, 0, 3,  0, 74, 80>>,
      <<80, 73, 67,  0, 0, 0>>,
      <<0, 0, 0,  0, 0, 0>> }

\* the size bytes of the tag header (sync-safe): 9, 10, 12, 40, 2^25 + 1
TagSizeBytes ==
    { <<0, 0, 0, 9>>, <<0, 0, 0, 10>>, <<0, 0, 0, 12>>, <<0, 0, 0, 40>>, <<16, 0, 0, 1>> }

Id3Header(ver, flags, sz) == <<73, 68, 51, ver, 0, flags>> \o sz

Id3Files(n) ==
    {Bytes(Id3Header(v, fl, sz) \o Flatten(fr)) :
        v \in {3, 4}, fl \in {0, 64}, sz \in TagSizeBytes, fr \in SeqsUpTo(FramesV34, n)}
    \cup
    {Bytes(Id3Header(2, 0, sz) \o Flatten(fr)) :
        sz \in TagSizeBytes, fr \in SeqsUpTo(FramesV2, n)}
    \cup
    {Bytes(<<>>), Bytes(<<73, 68, 51>>), Bytes(<<73, 68, 52, 3, 0, 0, 0, 0, 0, 12>>),
     \* a tag size of exactly 32 MiB; size bytes with their high bits set (12)
     Bytes(Id3Header(3, 0, <<16, 0, 0, 0>>) \o <<84, 73, 84, 50,  0, 0, 0, 0,  0, 0>>),
     Bytes(Id3Header(4, 0, <<128, 128, 128, 140>>) \o <<84, 73, 84, 50,  0, 0, 0, 0,  0, 0>>),
     \* ID3v2.3 with the extended header of the standard: size 6, flags, padding size
     Bytes(Id3Header(3, 64, <<0, 0, 0, 40>>) \o <<0, 0, 0, 6,  0, 0,  0, 0, 0, 0>>
           \o <<65, 80, 73, 67,  0, 0, 0, 10,  0, 0,  0, 105, 0, 3, 100, 0>> \o JpegStub),
     \* ID3v2.4 with an extended header of 6 bytes in all
     Bytes(Id3Header(4, 64, <<0, 0, 0, 40>>) \o <<0, 0, 0, 6,  1, 0>>
           \o <<84, 73, 84, 50,  0, 0, 0, 3,  0, 0,  65, 66, 67>>),
     \* pictures with a UTF-16 description ("A" behind a byte-order mark, "A"
     \* in big-endian order, an empty one) and with a UTF-8 description
     Bytes(Id3Header(3, 0, <<0, 0, 0, 40>>) \o <<65, 80, 73, 67,  0, 0, 0, 14,  0, 0>>
           \o <<1, 105, 0, 3,  255, 254, 65, 0, 0, 0>> \o JpegStub),
     Bytes(Id3Header(2, 0, <<0, 0, 0, 40>>) \o <<80, 73, 67,  0, 0, 13>>
           \o <<2, 74, 80, 71, 3,  0, 65, 0, 0>> \o JpegStub),
     Bytes(Id3Header(4, 0, <<0, 0, 0, 40>>) \o <<65, 80, 73, 67,  0, 0, 0, 10,  0, 0>>
           \o <<2, 105, 0, 3,  0, 0>> \o JpegStub),
     Bytes(Id3Header(4, 0, <<0, 0, 0, 40>>) \o <<65, 80, 73, 67,  0, 0, 0, 11,  0, 0>>
           \o <<3, 105, 0, 3,  195, 169, 0>> \o JpegStub)}

\* A walk that leaves the frame body (lines 131, 144) reads the bytes behind
\* the buffer up to the terminator of the description; they may be any.
\* What the walk does with them depends on which of them are zero and, where
\* the body is empty, on whether the first is an encoding byte of UTF-16.
\* The bytes up to a terminator among the first MaxSlack are told apart:
\* zero or another value, and 1 (UTF-16) for the first, with no mapped
\* memory behind them where they hold no terminator; a terminator further
\* behind is the outcome Id3Far.
MaxSlack == 4

HeapSlack ==
    SeqsUpTo({0, 65}, MaxSlack)
    \cup {<<1>> \o Tail(s) : s \in SeqsUpTo({0, 65}, MaxSlack) \ {<<>>}}
    \cup {<<204, 204, 0>>, <<0, 0, 0, 0,  0, 0, 0, 0>>}

\* Lines 144-149 where SkipEncodedString finds the terminator more than
\* MaxSlack bytes behind the buffer: it returns, p is larger than frameSize
\* (p and last are given as the least they can be) and nothing is decoded
Id3Far(buf, ver) ==
    LET fs == Len(buf)
        p1 == IF ver = 2 THEN 5 ELSE MimeEnd(buf) + 2
        p2 == Max2(p1, fs + MaxSlack) + 1
    IN  [p |-> p2, last |-> p2 - 1, crash |-> FALSE, decode |-> FALSE, far |-> TRUE]

InitID3 ==
    /\ file \in Id3Files(MaxFrames)
    /\ fpos = QW(0)
    /\ cw = CwIdle
    /\ ui = UiIdle
    /\ id3 = [Id3Idle EXCEPT !.pc = "start"]
    /\ ape = ApeIdle
    /\ flac = FlacIdle
    /\ mp4 = Mp4Idle

\* what the ID3v2 extractor leaves alone
KeepID3 == UNCHANGED <<file, ape, flac, mp4, cw, ui>>

Id3Return(r, pos) ==
    /\ id3' = [id3 EXCEPT !.pc = "done", !.ok = r]
    /\ fpos' = pos
    /\ KeepID3

\* a ceiling of 64 MiB
W32MiB_64MiB == DW(64 * 1024 * 1024)

W32MiB == DW(32 * 1024 * 1024)

\* Lines 49-85: open, tag header, extended header
ID3_Open ==
    /\ id3.pc = "start"
    /\ LET hdrOk  == ReadOk(file, fpos, DW(10))
           hdr    == ReadBytes(file, fpos, DW(10))
           pos1   == ReadPos(file, fpos, DW(10))
       IN
       IF ~hdrOk \/ SubSeq(hdr, 1, 3) # <<73, 68, 51>>
       THEN Id3Return(FALSE, pos1)
       ELSE
       LET ver     == hdr[4]
           flags   == hdr[6]
           tagSize == SyncSafeToInt(SubSeq(hdr, 7, 10))
       IN
       IF WLt(tagSize, DW(10)) \/ WLt(W32MiB, tagSize)
       THEN Id3Return(FALSE, pos1)
       ELSE IF (ver = 3 \/ ver = 4) /\ (flags \div 64) % 2 = 1
       THEN
           LET exOk == ReadOk(file, pos1, DW(10))
               ex   == ReadBytes(file, pos1, DW(10))
               pos2 == ReadPos(file, pos1, DW(10))
           IN
           IF ~exOk THEN Id3Return(FALSE, pos2)
           ELSE
           LET extSize == IF ver = 4 THEN SyncSafeToInt(SubSeq(ex, 1, 4))
                          ELSE BE32(SubSeq(ex, 1, 4))
           IN
           IF WLt(tagSize, extSize) THEN Id3Return(FALSE, pos2)
           ELSE
               /\ fpos' = SeekCur(pos2, WSub(extSize, DW(10)))
               /\ id3' = [id3 EXCEPT !.pc = "loop", !.ver = ver,
                                     !.remaining = WSub(tagSize, extSize),
                                     !.budget = WSub(tagSize, extSize)]
               /\ KeepID3
       ELSE
           /\ fpos' = pos1
           /\ id3' = [id3 EXCEPT !.pc = "loop", !.ver = ver,
                                 !.remaining = tagSize, !.budget = tagSize]
           /\ KeepID3

\* Line 89: while (remaining > 0) fails; line 159
ID3_LoopEnd ==
    /\ id3.pc = "loop"
    /\ id3.remaining = DW(0)
    /\ Id3Return(FALSE, fpos)

\* bytes accounted as consumed: saturates once the budget is exceeded
Id3Use(st, n) ==
    LET u == WAdd(st.used, ZExt(n, 5))
    IN  IF st.over THEN st
        ELSE [st EXCEPT !.used = u, !.over = WLt(ZExt(st.budget, 5), u)]

\* Lines 89-114: one frame header
ID3_FrameHeader ==
    /\ id3.pc = "loop"
    /\ id3.remaining # DW(0)
    /\ LET hl   == IF id3.ver = 2 THEN 6 ELSE 10
           ok   == ReadOk(file, fpos, DW(hl))
           fh   == ReadBytes(file, fpos, DW(hl))
           pos1 == ReadPos(file, fpos, DW(hl))
           here == <<fpos, id3.remaining>>
           st0  == [id3 EXCEPT !.seen = @ \cup {here},
                               !.revisit = @ \/ here \in id3.seen,
                               !.hdrOff = fpos,
                               !.left = IF id3.over THEN Nat2W(0, 5)
                                        ELSE WSub(ZExt(id3.budget, 5), id3.used)]
       IN
       /\ KeepID3
       /\ fpos' = pos1
       /\ IF ~ok \/ fh[1] = 0
          THEN id3' = [st0 EXCEPT !.pc = "done", !.ok = FALSE, !.stop = "header"]
          ELSE
          LET frameSize == IF id3.ver = 2 THEN BE24(SubSeq(fh, 4, 6))
                           ELSE IF id3.ver = 4 THEN SyncSafeToInt(SubSeq(fh, 5, 8))
                           ELSE BE32(SubSeq(fh, 5, 8))
              isCover   == IF id3.ver = 2 THEN SubSeq(fh, 1, 3) = <<80, 73, 67>>
                           ELSE SubSeq(fh, 1, 4) = <<65, 80, 73, 67>>
          IN
          IF WLt(id3.remaining, frameSize)
          THEN id3' = [st0 EXCEPT !.pc = "done", !.ok = FALSE, !.frameSize = frameSize,
                                  !.isCover = isCover, !.headerLen = hl,
                                  !.stop = "size"]
          ELSE id3' = [Id3Use(st0, DW(hl)) EXCEPT
                                  !.pc = "body", !.frameSize = frameSize,
                                  !.isCover = isCover, !.headerLen = hl,
                                  !.remaining = WSub(id3.remaining, DW(hl))]

\* Lines 156-157: if (remaining < frameSize) break; remaining -= frameSize;
Id3Tail(st) ==
    IF WLt(st.remaining, st.frameSize)
    THEN [st EXCEPT !.pc = "done", !.ok = FALSE]
    ELSE [st EXCEPT !.pc = "loop", !.remaining = WSub(st.remaining, st.frameSize)]

\* Lines 116-119, 156-157: a frame that is no picture is skipped by Seek
ID3_SkipFrame ==
    /\ id3.pc = "body"
    /\ ~id3.isCover
    /\ fpos' = SeekCur(fpos, id3.frameSize)
    /\ id3' = Id3Tail(Id3Use(id3, id3.frameSize))
    /\ KeepID3

\* a reader that goes on with the next frame after a picture has decoded
Id3AfterPicture_GoOn(st, ok) == Id3Tail([st EXCEPT !.ok = @ \/ ok])

\* Lines 154-157: if (ok) return TRUE; else the frame is accounted for
Id3AfterPicture(st, ok) ==
    IF ok THEN [st EXCEPT !.pc = "done", !.ok = TRUE] ELSE Id3Tail(st)

\* GlobalAlloc(GMEM_FIXED, n) can succeed only below 2 GiB in a 32-bit process
AllocCanSucceed(n) == ~IsNeg(n)

\* Lines 120-157: a picture frame: allocate, read, walk, decode
ID3_Picture ==
    /\ id3.pc = "body"
    /\ id3.isCover
    /\ KeepID3
    /\ \E allocOk \in BOOLEAN, pixelOk \in BOOLEAN,
          miss \in {[off |-> id3.hdrOff, decoded |-> FALSE]} :
       /\ allocOk => AllocCanSucceed(id3.frameSize)
       /\ IF ~allocOk
          THEN /\ fpos' = fpos
               /\ id3' = Id3AfterPicture([id3 EXCEPT !.parsed = FALSE,
                                                     !.pics = @ \cup {miss}], FALSE)
          ELSE
          LET rdOk == ReadOk(file, fpos, id3.frameSize)
              buf  == ReadBytes(file, fpos, id3.frameSize)
              st1  == [id3 EXCEPT !.alloc = id3.frameSize, !.parsed = FALSE]
          IN
          /\ fpos' = ReadPos(file, fpos, id3.frameSize)
          /\ IF ~rdOk
             THEN id3' = Id3AfterPicture([st1 EXCEPT !.pics = @ \cup {miss}], FALSE)
             ELSE
             \* the bytes behind the buffer matter to a walk that leaves it
             \E r \in IF ParsePicture(buf, <<>>, id3.ver).crash
                       THEN {ParsePicture(buf, slack, id3.ver) : slack \in HeapSlack}
                            \cup {Id3Far(buf, id3.ver)}
                       ELSE {ParsePicture(buf, <<>>, id3.ver)} :
             LET st2 == [Id3Use(st1, id3.frameSize) EXCEPT
                            !.parsed = TRUE,
                            !.pic = [fs |-> Len(buf), p |-> r.p, last |-> r.last,
                                     crash |-> r.crash, decode |-> r.decode,
                                     far |-> r.far,
                                     off |-> fpos]]
                 ok  == /\ ~r.crash
                        /\ r.decode
                        /\ Img_LoadFromMemoryToBitmap(
                               HeadOf(SubSeq(buf, r.p + 1, Len(buf))),
                               DW(Len(buf) - r.p), pixelOk)
             IN
             IF r.crash THEN id3' = [st2 EXCEPT !.pc = "crash"]
             ELSE id3' = Id3AfterPicture(
                             [st2 EXCEPT !.pics = @ \cup {[off |-> id3.hdrOff,
                                                           decoded |-> ok]}], ok)

NextID3 == ID3_Open \/ ID3_LoopEnd \/ ID3_FrameHeader \/ ID3_SkipFrame \/ ID3_Picture

SpecID3 == InitID3 /\ [][NextID3]_vars


(***************************************************************************)
(* Claims about the ID3v2 extractor                                        *)
(***************************************************************************)
\* C1: at every point of the frame loop the bytes consumed after the tag
\* header (frame headers read plus frame bodies read or skipped) never
\* exceed the tag's declared size: the remaining-bytes counter never wraps.
C1_ConsumedWithinTag ==
    id3.pc \in {"loop", "body", "done", "crash"} =>
        /\ ~id3.over
        /\ WLe(id3.remaining, id3.budget)

\* C2: while a picture frame body of frameSize bytes is walked, only its
\* byte indices 0 .. frameSize - 1 are read, and the payload offset p
\* handed to the decoder satisfies p <= frameSize.
C2_PictureReadsInBounds ==
    id3.parsed =>
        /\ ~id3.pic.crash
        /\ id3.pic.last < id3.pic.fs
        /\ (id3.pic.decode => id3.pic.p <= id3.pic.fs)

\* C6: no (file position, remaining) state of the frame loop is visited
\* twice, so the loop ends after finitely many iterations.
C6_NoLoopStateTwice == ~id3.revisit

\* C9: the buffer allocated for a picture frame body never exceeds 32 MiB.
C9_PictureBufferAtMost32MiB ==
    id3.alloc # <<>> => WLe(id3.alloc, W32MiB)


\* C20: a frame whose header declares a size larger than the tag bytes that
\* remain (the declared tag size less the bytes consumed so far) ends the
\* iteration: its body is neither read nor skipped, no later frame is
\* examined, and the result is None
C20_OversizedFrameStops ==
    /\ id3.pc = "body" => WLe(ZExt(id3.frameSize, 5), id3.left)
    /\ id3.stop = "size" => id3.pc = "done" /\ ~id3.ok

\* C15: the image returned is that of the first picture frame in file order
\* (PIC in v2.2, APIC in v2.3 and v2.4) whose payload the decoder accepts;
\* once a picture frame has decoded, no later frame header or body is read:
\* the call is over, with the file pointer behind that frame's body
C15_FirstDecodedPictureWins ==
    /\ \A q \in id3.pics :
          q.decoded =>
             /\ id3.pc = "done"
             /\ id3.ok
             /\ id3.isCover
             /\ q.off = id3.hdrOff
             /\ fpos = WAdd(WAdd(q.off, QW(id3.headerLen)), ZExt(id3.frameSize, 8))
    /\ (id3.pc = "done" /\ id3.ok) =>
          /\ [off |-> id3.hdrOff, decoded |-> TRUE] \in id3.pics
          /\ \A q \in id3.pics : WLe(q.off, id3.hdrOff)

\* a picture frame is returned after an earlier picture frame did not decode
C15_Witness ==
    /\ id3.pc = "done"
    /\ id3.ok
    /\ \E q \in id3.pics : ~q.decoded /\ WLt(q.off, id3.hdrOff)

\* the tag size the header declares: 7 bits of each of the bytes 6..9
C21_TagSize ==
    (FileByte(file, 6) % 128) * 2097152 + (FileByte(file, 7) % 128) * 16384
    + (FileByte(file, 8) % 128) * 128 + (FileByte(file, 9) % 128)

\* the first 10 bytes are there, start with "ID3" and declare a size in 10 .. 32 MiB
C21_HeaderAccepted ==
    /\ FileLen(file) >= 10
    /\ <<FileByte(file, 0), FileByte(file, 1), FileByte(file, 2)>> = <<73, 68, 51>>
    /\ C21_TagSize >= 10
    /\ C21_TagSize <= 33554432

\* C21: unless the first 10 bytes are readable, start with "ID3" and declare
\* a sync-safe tag size with 10 <= tag_size <= 32 MiB, the extractor returns
\* None straight from the header: nothing past the header is read, no frame
\* header is examined and no buffer is allocated
C21_BadHeaderYieldsNone ==
    (id3.pc # "start" /\ ~C21_HeaderAccepted) =>
        /\ id3.pc = "done"
        /\ ~id3.ok
        /\ id3.seen = {}
        /\ id3.pics = {}
        /\ id3.alloc = <<>>
        /\ WLe(fpos, QW(10))

\* a header of "ID3" with a declared size of 32 MiB + 1 and frames behind it
\* has been refused
C21_Witness ==
    /\ id3.pc = "done"
    /\ FileLen(file) > 20
    /\ <<FileByte(file, 0), FileByte(file, 1), FileByte(file, 2)>> = <<73, 68, 51>>
    /\ C21_TagSize = 33554433
    /\ id3.seen = {}

\* the header carries the extended-header flag in version 3 or 4 and the
\* 10 bytes behind it can be read
C23_HasExtHeader ==
    /\ C21_HeaderAccepted
    /\ FileByte(file, 3) \in {3, 4}
    /\ (FileByte(file, 5) \div 64) % 2 = 1
    /\ FileLen(file) >= 20

\* the size the extended header declares: sync-safe in v2.4, big-endian in v2.3
C23_ExtSize ==
    LET b == [k \in 1..4 |-> FileByte(file, 9 + k)]
    IN  IF FileByte(file, 3) = 4
        THEN (b[1] % 128) * 2097152 + (b[2] % 128) * 16384 + (b[3] % 128) * 128 + (b[4] % 128)
        ELSE b[1] * 16777216 + b[2] * 65536 + b[3] * 256 + b[4]

\* C23: with the extended-header flag set (version 3 or 4) the extended
\* header is skipped forward: frame parsing starts at or after offset 20,
\* the end of the 10 extended-header bytes read; the remaining tag size is
\* the tag size less the extended-header size; the result is None, with no
\* frame read, when that size exceeds the tag size
C23_ExtHeaderSkippedForward ==
    (id3.pc # "start" /\ C23_HasExtHeader) =>
        IF C23_ExtSize > C21_TagSize
        THEN id3.pc = "done" /\ ~id3.ok /\ id3.seen = {}
        ELSE /\ id3.budget = DW(C21_TagSize - C23_ExtSize)
             /\ (id3.pc = "loop" /\ id3.seen = {}) => WLe(QW(20), fpos)
             /\ \A h \in id3.seen : WLe(QW(20), h[1])

\* the body of the picture frame walked last, as it lies in the file
C24_Body == ReadBytes(file, id3.pic.off, DW(id3.pic.fs))

\* the least member of a set of numbers
C24_Least(S) == CHOOSE j \in S : \A k \in S : j <= k

\* offsets (from 0) in the body b at which the MIME string can end: zero bytes
\* behind the encoding byte
C24_MimeZeros(b) == {j \in 1..(Len(b) - 1) : b[j + 1] = 0}

\* the offset of the description: behind encoding, format code and picture
\* type (PIC), or behind encoding, MIME string with its zero and picture type
C24_DescStart(b) ==
    IF id3.ver = 2 THEN 5 ELSE C24_Least(C24_MimeZeros(b)) + 2

\* the lengths a description at offset d can have, terminator included: up
\* to the first zero code unit (two bytes) for encoding 1 or 2, up to the
\* first zero byte for any other encoding
C24_DescLengths(b, d) ==
    IF b[1] \in {1, 2}
    THEN {n \in 2..(Len(b) - d) : n % 2 = 0 /\ b[d + n - 1] = 0 /\ b[d + n] = 0}
    ELSE {n \in 1..(Len(b) - d) : b[d + n] = 0}

\* the body has all the fields of the layout and image bytes behind them
C24_WellFormed(b) ==
    /\ Len(b) >= 1
    /\ id3.ver # 2 => C24_MimeZeros(b) # {}
    /\ C24_DescStart(b) <= Len(b)
    /\ C24_DescLengths(b, C24_DescStart(b)) # {}
    /\ C24_DescStart(b) + C24_Least(C24_DescLengths(b, C24_DescStart(b))) < Len(b)

\* C24: for a well-formed picture frame body the decoder is handed exactly
\* the bytes behind the encoding byte, the MIME string with its zero and
\* the picture type (APIC) or the 3-byte format and the picture type (PIC),
\* and the description with its terminator (two zero bytes for encoding 1
\* or 2, one zero byte otherwise), up to the end of the body
C24_PayloadBehindDescription ==
    (id3.parsed /\ C24_WellFormed(C24_Body)) =>
        /\ ~id3.pic.crash
        /\ id3.pic.decode
        /\ id3.pic.p = C24_DescStart(C24_Body)
                        + C24_Least(C24_DescLengths(C24_Body, C24_DescStart(C24_Body)))

\* an APIC body with a UTF-16 description whose text holds a zero byte next
\* to the terminator has been walked: the payload starts at offset 10
C24_Witness ==
    /\ id3.parsed
    /\ id3.ver = 3
    /\ C24_WellFormed(C24_Body)
    /\ C24_Body[1] = 1
    /\ SubSeq(C24_Body, 7, 10) = <<65, 0, 0, 0>>
    /\ id3.pic.p = 10

(***************************************************************************)
(* APEv2 extractor (Extensions/ape_reader.cpp)                             *)
(***************************************************************************)
ApeSig == <<65, 80, 69, 84, 65, 71, 69, 88>>

\* Line 56: the declared tag size is taken if it is at least the footer
\* and at most the file
ApeSizeValid(size, fSize) == WLe(DW(32), size) /\ WLe(size, fSize)

\* a scan that takes the first signature of the window, not the last
Ape_ScanFooter_Forward(f) ==
    LET n        == FileLen(f)
        scanSize == IF n > 4096 THEN 4096 ELSE n
        base     == n - scanSize
        SizeAt(i) == LE32([k \in 1..4 |-> FileByte(f, base + i + 11 + k)])
    IN  Then({i \in 0..(scanSize - 32) :
                 /\ \A k \in 0..7 : FileByte(f, base + i + k) = ApeSig[k + 1]
                 /\ ApeSizeValid(SizeAt(i), GetSize(f))},
             LAMBDA Cand :
        IF Cand = {}
        THEN [found |-> FALSE, scanSize |-> scanSize, absFooter |-> DW(0),
              totalSize |-> DW(0), absStart |-> DW(0)]
        ELSE Then(CHOOSE c \in Cand : \A d \in Cand : c <= d, LAMBDA i :
             [found |-> TRUE, scanSize |-> scanSize, absFooter |-> DW(base + i),
              totalSize |-> SizeAt(i),
              absStart |-> WSub(WAdd(DW(base + i), DW(32)), SizeAt(i))]))

\* Lines 34-67, Ape_ScanFooter: the last min(fSize, 4096) bytes are searched
\* backwards for "APETAGEX" with a valid size field
Ape_ScanFooter(f) ==
    LET n        == FileLen(f)
        scanSize == IF n > 4096 THEN 4096 ELSE n
        base     == n - scanSize
        SizeAt(i) == LE32([k \in 1..4 |-> FileByte(f, base + i + 11 + k)])
    IN  Then({i \in 0..(scanSize - 32) :
                 /\ \A k \in 0..7 : FileByte(f, base + i + k) = ApeSig[k + 1]
                 /\ ApeSizeValid(SizeAt(i), GetSize(f))},
             LAMBDA Cand :
        IF Cand = {}
        THEN [found |-> FALSE, scanSize |-> scanSize, absFooter |-> DW(0),
              totalSize |-> DW(0), absStart |-> DW(0)]
        ELSE Then(CHOOSE c \in Cand : \A d \in Cand : d <= c, LAMBDA i :
             [found |-> TRUE, scanSize |-> scanSize, absFooter |-> DW(base + i),
              totalSize |-> SizeAt(i),
              absStart |-> WSub(WAdd(DW(base + i), DW(32)), SizeAt(i))]))

Min2(a, b) == IF a <= b THEN a ELSE b

RECURSIVE FirstZero(_, _, _)
\* the first offset in a .. end - 1 of the file that holds a zero byte, else end
FirstZero(f, a, end) ==
    IF a >= end THEN end
    ELSE IF a >= Len(f.pre) /\ a < Len(f.pre) + f.fill
         THEN FirstZero(f, Min2(Len(f.pre) + f.fill, end), end)
    ELSE IF FileByte(f, a) = 0 THEN a
    ELSE FirstZero(f, a + 1, end)

RECURSIVE NormKey(_, _, _, _)
\* Lines 102-109: the letters of the key at offsets a .. end - 1, lowercased,
\* at most 63 of them
NormKey(f, a, end, acc) ==
    IF a >= end \/ Len(acc) >= 63 THEN acc
    ELSE IF a >= Len(f.pre) /\ a < Len(f.pre) + f.fill
         THEN NormKey(f, Min2(Len(f.pre) + f.fill, end), end, acc)
    ELSE LET c == FileByte(f, a)
             l == IF c >= 65 /\ c <= 90 THEN c + 32 ELSE c
         IN  NormKey(f, a + 1, end,
                     IF l >= 97 /\ l <= 122 THEN Append(acc, l) ELSE acc)

\* StrStrIA(norm, word) # NULL, for a lowercase norm and word
Contains(norm, word) ==
    \E i \in 1..(Len(norm) - Len(word) + 1) : SubSeq(norm, i, i + Len(word) - 1) = word

\* a ranking that looks for "back" before it looks for "front"
ApeRank_BackFirst(norm) ==
    IF Contains(norm, <<99, 111, 118, 101, 114>>)
       \/ Contains(norm, <<112, 105, 99, 116, 117, 114, 101>>)
    THEN IF Contains(norm, <<98, 97, 99, 107>>) THEN 2
         ELSE IF Contains(norm, <<102, 114, 111, 110, 116>>) THEN 0
         ELSE 1
    ELSE -1

\* Lines 113-118: -1 no picture, 0 front, 1 generic, 2 back
ApeRank(norm) ==
    IF Contains(norm, <<99, 111, 118, 101, 114>>)
       \/ Contains(norm, <<112, 105, 99, 116, 117, 114, 101>>)
    THEN IF Contains(norm, <<102, 114, 111, 110, 116>>) THEN 0
         ELSE IF Contains(norm, <<98, 97, 99, 107>>) THEN 2
         ELSE 1
    ELSE -1

\* the first candidate is kept whatever follows
ApeBetter_FirstWins(st, rank, imgLen) == ~st.hasBest

\* Line 132: a candidate replaces the best one so far
ApeBetter(st, rank, imgLen) ==
    \/ ~st.hasBest
    \/ rank < st.bestRank
    \/ (rank = st.bestRank /\ WLt(st.bestSize, imgLen))

\* the pieces into which the starts T cut the range lo .. hi of words: a
\* piece begins at lo or at a start and ends in front of the next start
Cut(lo, hi, T) ==
    Then({lo} \cup {t \in T : WLt(lo, t) /\ WLe(t, hi)}, LAMBDA S :
    {[lo |-> a,
      hi |-> IF \E s \in S : WLt(a, s)
             THEN WSub(CHOOSE s \in S : WLt(a, s) /\ \A u \in S : WLt(a, u) => WLe(s, u),
                       Nat2W(1, Len(lo)))
             ELSE hi] : a \in S})

\* Lines 123-127: the embedded file name of a picture value is skipped.
\* The value starts at index v of the tag buffer of sz bytes, which lies at
\* offset base of the file.  A scan that finds no zero byte in the buffer
\* goes on behind it: zero is the number of bytes behind the buffer that
\* lie in front of the first zero byte there (NoWord: the scan meets memory
\* that is not mapped).  far says the image starts behind that zero byte.
ApeImage(f, base, sz, v, valSize, zero) ==
    LET sum5    == WAdd(ZExt(DW(v), 5), ZExt(valSize, 5))
        wrapped == sum5[5] # 0
        vend    == IF wrapped THEN sz ELSE v + W2Nat(valSize)
        z       == FirstZero(f, base + v, base + vend) - base
        \* p of line 124 where the scan stops at the zero byte behind the buffer
        p       == WAdd(Nat2W(sz - v, 5), ZExt(zero, 5))
    IN  IF z < vend
        THEN [crash |-> FALSE, oob |-> FALSE, far |-> FALSE, img |-> Nat2W(z + 1, 5),
              imgLen |-> WSub(valSize, DW(z - v + 1))]
        ELSE IF ~wrapped
        THEN [crash |-> FALSE, oob |-> FALSE, far |-> FALSE, img |-> Nat2W(v, 5),
              imgLen |-> valSize]
        ELSE IF zero = NoWord
        THEN [crash |-> TRUE, oob |-> TRUE, far |-> FALSE, img |-> Nat2W(v, 5),
              imgLen |-> valSize]
        ELSE IF WLt(p, ZExt(valSize, 5))
        THEN [crash |-> FALSE, oob |-> TRUE, far |-> TRUE,
              img |-> WAdd(Nat2W(sz + 1, 5), ZExt(zero, 5)),
              imgLen |-> WSub(WSub(valSize, DW(sz - v + 1)), zero)]
        \* valSize bytes without a zero byte
        ELSE [crash |-> FALSE, oob |-> TRUE, far |-> FALSE, img |-> Nat2W(v, 5),
              imgLen |-> valSize]

\* The parse as it goes for the first zero byte behind the buffer at
\* g.lo .. g.hi instead of st.zero .. st.zero + st.span: what lies behind
\* that zero byte moves with it
ApeShift(st, g) ==
    LET d     == WSub(g.lo, st.zero)
        mv(c) == IF c.far THEN [c EXCEPT !.off = WAdd(@, ZExt(d, 5)),
                                         !.imgLen = WSub(@, d)]
                 ELSE c
    IN  [st EXCEPT !.zero = g.lo, !.span = WSub(g.hi, g.lo),
                   !.cands = {mv(c) : c \in @},
                   !.bestOff = IF st.bestFar THEN WAdd(@, ZExt(d, 5)) ELSE @,
                   !.bestSize = IF st.bestFar THEN WSub(@, d) ELSE @]

\* a 5-byte word that fits a DWORD, as the set of that DWORD
Fits(t) == IF t[5] = 0 THEN {SubSeq(t, 1, 4)} ELSE {}

\* Where the first zero byte behind the buffer may lie when the item with
\* value start v and size valSize is looked at.  What the memory behind the
\* buffer holds is not in the parser's hands; it is taken as it is for the
\* whole parse.  The range left by the items before is cut wherever this
\* item goes another way: at the end of the value (line 124), where the
\* payload is empty (line 129) and where the payload is as large as the
\* best one so far (line 132); the distances 0 .. MaxSlack are told apart
\* one by one.  exact is the payload length of an item
\* whose image does not start behind the buffer.
ApeZero(st, sz, v, valSize, leaves, exact) ==
    LET lim  == WSub(valSize, DW(sz - v))
        best == WAdd(ZExt(st.bestSize, 5), ZExt(st.zero, 5))
        tell == {DW(k) : k \in 1..(MaxSlack + 1)}
        ends == {WSub(lim, DW(1)), lim}
        \* lim - 1 - zero > bestSize
        nearer == IF st.hasBest /\ ~st.bestFar /\ WLt(st.bestSize, lim)
                  THEN {WSub(WSub(lim, DW(1)), st.bestSize)} ELSE {}
        \* c > bestSize - (zero - st.zero), for a best payload behind the buffer
        larger(c) == IF st.hasBest /\ st.bestFar /\ WLe(ZExt(c, 5), best)
                     THEN Fits(WAdd(WSub(best, ZExt(c, 5)), Nat2W(1, 5))) ELSE {}
    IN  Cut(st.zero, WAdd(st.zero, st.span),
            IF leaves THEN tell \cup ends \cup nearer \cup larger(valSize)
            ELSE larger(exact))

(***************************************************************************)
(* Input files of the APE extractor                                        *)
(***************************************************************************)
MaxItems == 3

ApeItem(valSize, key, value) == valSize \o <<0, 0, 0, 0>> \o key \o <<0>> \o value

KeyFront == <<67, 111, 118, 101, 114, 32, 65, 114, 116, 32, 40, 70, 114, 111, 110, 116, 41>>
KeyBack  == <<67, 111, 118, 101, 114, 32, 65, 114, 116, 32, 40, 66, 97, 99, 107, 41>>
KeyCover == <<67, 111, 118, 101, 114>>

ApeItems ==
    { ApeItem(DW(2), <<84>>, <<97, 98>>),
      ApeItem(DW(6), KeyFront, <<102, 0>> \o JpegStub),
      ApeItem(DW(5), KeyBack, JpegStub \o <<1>>),
      ApeItem(DW(7), KeyCover, <<0>> \o JpegStub \o <<1, 2>>),
      ApeItem(DW(9), KeyCover, <<0>> \o JpegStub \o <<1, 2, 3, 4>>),
      ApeItem(<<247, 255, 255, 255>>, <<>>, <<>>),
      ApeItem(DW(200), <<84>>, <<>>),
      <<0, 0, 0, 0,  0, 0, 0, 0,  84, 84>> }

ApeFooter(size) ==
    ApeSig \o <<208, 7, 0, 0>> \o size \o <<0, 0, 0, 0>> \o <<0, 0, 0, 128>>
           \o <<0, 0, 0, 0, 0, 0, 0, 0>>

OneCover == ApeItem(DW(6), KeyFront, <<102, 0>> \o JpegStub)

\* keys that need their letters picked out ("PIC-TURE 2", "Back Cover/Front",
\* "Front") and keys of 63 letters and more: 58 or 60 times "x" in front of
\* "Cover", 60 times "x" between "Cover" and "Front", 70 digits in front of
\* "Cover"
LongKeys ==
    { <<80, 73, 67, 45, 84, 85, 82, 69, 32, 50>>,
      <<66, 97, 99, 107, 32, 67, 111, 118, 101, 114, 47, 70, 114, 111, 110, 116>>,
      <<70, 114, 111, 110, 116>>,
      [i \in 1..58 |-> 120] \o KeyCover,
      [i \in 1..60 |-> 120] \o KeyCover,
      KeyCover \o [i \in 1..60 |-> 120] \o <<70, 114, 111, 110, 116>>,
      [i \in 1..70 |-> 49] \o KeyCover }

\* An item whose value reaches 2^32 - 14 bytes from index 18 on, the end of
\* the tag body: the parse position wraps to index 4, where the flags, the
\* first four letters of the key and its last five letters ("cover") are
\* the size, the flags and the key of a second item with the same value
\* start.  Both value scans leave the buffer.
TwoScans(flags) ==
    <<242, 255, 255, 255>> \o flags \o <<65, 114, 116, 32>> \o KeyCover \o <<0>>

BigCoverHead(fill) == ApeItem(DW(5 + fill), KeyCover, <<0>> \o JpegStub)

ApeFiles(n) ==
    \* a tag of up to n items, that is the whole file
    {Bytes(Flatten(its) \o ApeFooter(DW(Len(Flatten(its)) + 32))) :
        its \in SeqsUpTo(ApeItems, n)}
    \cup
    \* the same with a last item whose value size is 2^32 - 1: its value scan
    \* leaves the buffer
    {Bytes(Flatten(its) \o ApeItem(<<255, 255, 255, 255>>, KeyCover, <<>>)
           \o ApeFooter(DW(Len(Flatten(its)) + 14 + 32))) :
        its \in SeqsUpTo(ApeItems, n - 1)}
    \cup
    \* one cover item, with audio before the tag, bytes after the footer,
    \* and size fields that are right, too small, and too large
    {Bytes(lead \o OneCover \o ApeFooter(DW(Len(OneCover) + 32 + d)) \o trail) :
        lead \in {<<>>, <<1, 2, 3>>}, d \in {0, 1, 4}, trail \in {<<>>, <<84, 65, 71, 43>>}}
    \cup
    \* one picture item under a key that is long or needs normalising
    {Bytes(ApeItem(DW(5), k, <<0>> \o JpegStub)
           \o ApeFooter(DW(Len(ApeItem(DW(5), k, <<0>> \o JpegStub)) + 32))) :
        k \in LongKeys}
    \cup
    {Bytes(OneCover \o ApeFooter(DW(31))),
     Bytes(<<>>), Bytes(ApeSig),
     \* a footer with a size of 31 behind the tag; two tags in a row
     Bytes(OneCover \o ApeFooter(DW(Len(OneCover) + 32)) \o ApeFooter(DW(31))),
     Bytes(OneCover \o ApeFooter(DW(Len(OneCover) + 32))
           \o ApeItem(DW(5), KeyCover, <<0>> \o JpegStub) \o ApeFooter(DW(14 + 5 + 32))),
     \* the size counts a 32-byte header too
     Bytes(ApeFooter(DW(Len(OneCover) + 64)) \o OneCover \o ApeFooter(DW(Len(OneCover) + 64))),
     \* more than 4096 bytes of audio before the tag
     [pre |-> <<>>, fill |-> 5000, post |-> OneCover \o ApeFooter(DW(Len(OneCover) + 32))],
     \* two value scans that leave the buffer, the second value the longer
     \* or the shorter one
     Bytes(TwoScans(<<251, 255, 255, 255>>) \o ApeFooter(DW(18 + 32))),
     Bytes(TwoScans(<<239, 255, 255, 255>>) \o ApeFooter(DW(18 + 32))),
     \* a tag whose single picture is larger than 32 MiB
     [pre |-> BigCoverHead(kMaxImageBytes + 8), fill |-> kMaxImageBytes + 8,
      post |-> ApeFooter(DW(Len(BigCoverHead(0)) + kMaxImageBytes + 8 + 32))]}

InitAPE ==
    /\ file \in ApeFiles(MaxItems)
    /\ fpos = QW(0)
    /\ cw = CwIdle
    /\ ui = UiIdle
    /\ id3 = Id3Idle
    /\ ape = [ApeIdle EXCEPT !.pc = "start"]
    /\ flac = FlacIdle
    /\ mp4 = Mp4Idle

\* what the APE extractor leaves alone
KeepAPE == UNCHANGED <<file, id3, flac, mp4, cw, ui>>

\* Lines 148-160 with Ape_ScanFooter, and lines 75-83 of Ape_ParseItems:
\* the tag is located, its body is read, the item loop is entered
APE_Open ==
    /\ ape.pc = "start"
    /\ KeepAPE
    /\ \E scanOk \in BOOLEAN, bodyOk \in BOOLEAN, sc \in {Ape_ScanFooter(file)} :
       LET n    == FileLen(file)
           st1  == [ape EXCEPT !.fSize = GetSize(file), !.scanAlloc = sc.scanSize,
                               !.absStart = sc.absStart, !.absFooter = sc.absFooter,
                               !.totalSize = sc.totalSize]
           dataSize == WSub(sc.totalSize, DW(32))
           st2  == [st1 EXCEPT !.bodyAlloc = dataSize, !.size = dataSize]
           rdOk == ReadAtOk(file, ZExt(sc.absStart, 8), dataSize)
           b    == W2Nat(sc.absStart)
       IN
       IF n < 32 \/ ~scanOk
       THEN /\ ape' = [ape EXCEPT !.pc = "done", !.ok = FALSE, !.fSize = GetSize(file)]
            /\ fpos' = fpos
       ELSE IF ~sc.found \/ WLt(sc.totalSize, DW(32))
       THEN /\ ape' = [st1 EXCEPT !.pc = "done", !.ok = FALSE]
            /\ fpos' = QW(n)
       ELSE IF ~bodyOk \/ ~AllocCanSucceed(dataSize)
       THEN /\ ape' = [st1 EXCEPT !.pc = "done", !.ok = FALSE]
            /\ fpos' = QW(n)
       ELSE IF ~rdOk
       THEN /\ ape' = [st2 EXCEPT !.pc = "done", !.ok = FALSE]
            /\ fpos' = ReadPos(file, ZExt(sc.absStart, 8), dataSize)
       ELSE /\ fpos' = ReadPos(file, ZExt(sc.absStart, 8), dataSize)
            /\ ape' = [st2 EXCEPT
                 !.pc = "items",
                 !.pos = IF WLe(DW(32), dataSize)
                            /\ [k \in 1..8 |-> FileByte(file, b + k - 1)] = ApeSig
                         THEN DW(32) ELSE DW(0)]

\* Lines 85-138: one item of the tag body
APE_Item ==
    /\ ape.pc = "items"
    /\ WLe(WAdd(ape.pos, DW(8)), ape.size)
    /\ KeepAPE
    /\ fpos' = fpos
    /\ \E kz \in {FirstZero(file, W2Nat(ape.absStart) + W2Nat(ape.pos) + 8,
                          W2Nat(ape.absStart) + W2Nat(ape.size)) - W2Nat(ape.absStart)} :
       LET base    == W2Nat(ape.absStart)
           sz      == W2Nat(ape.size)
           p0      == W2Nat(ape.pos)
           valSize == LE32([k \in 1..4 |-> FileByte(file, base + p0 + k - 1)])
           keyStart == p0 + 8
           v       == kz + 1
       IN
       IF kz >= sz
       THEN ape' = [ape EXCEPT !.pc = "select", !.pos = DW(kz), !.item.accepted = FALSE]
       ELSE IF WLt(ape.size, WAdd(DW(v), valSize))
       THEN ape' = [ape EXCEPT !.pc = "select", !.pos = DW(v), !.item.accepted = FALSE]
       ELSE
       \E rank \in {ApeRank(NormKey(file, base + keyStart, base + kz, <<>>))},
          im0 \in {ApeImage(file, base, sz, v, valSize, NoWord)} :
       \* a value scan that leaves the buffer goes as far as the first zero
       \* byte behind it or the end of the value; it meets memory that is
       \* not mapped only where no scan before it has been
       \E g \in IF rank < 0 THEN {[lo |-> NoWord, hi |-> NoWord]}
                ELSE (IF im0.crash /\ ~ape.found
                         /\ WLt(ape.mapped, WSub(valSize, DW(sz - v)))
                      THEN {[lo |-> NoWord, hi |-> NoWord]} ELSE {})
                     \cup ApeZero(ape, sz, v, valSize, im0.crash, im0.imgLen) :
       \E at \in {IF rank < 0 \/ g.lo = NoWord THEN ape ELSE ApeShift(ape, g)},
          im \in {IF im0.crash THEN ApeImage(file, base, sz, v, valSize, g.lo) ELSE im0} :
       LET st1  == [at EXCEPT !.item = [accepted |-> TRUE, valStart |-> DW(v),
                                        valSize |-> valSize, rank |-> rank,
                                        keyStart |-> DW(keyStart)],
                              !.pos = WAdd(DW(v), valSize),
                              !.found = @ \/ (rank >= 0 /\ im.far),
                              !.mapped = IF rank >= 0 /\ im0.crash /\ ~im.crash /\ ~im.far
                                            /\ WLt(@, WSub(valSize, DW(sz - v)))
                                         THEN WSub(valSize, DW(sz - v)) ELSE @]
           cand == [off |-> im.img, rank |-> rank, imgLen |-> im.imgLen, far |-> im.far]
       IN
       IF rank < 0 THEN ape' = st1
       ELSE IF im.crash THEN ape' = [st1 EXCEPT !.pc = "crash", !.crash = TRUE, !.oob = TRUE]
       ELSE IF im.imgLen = DW(0)
       THEN ape' = [st1 EXCEPT !.oob = @ \/ im.oob]
       ELSE IF ApeBetter(at, rank, im.imgLen)
       THEN ape' = [st1 EXCEPT !.oob = @ \/ im.oob, !.hasBest = TRUE, !.bestOff = im.img,
                               !.bestSize = im.imgLen, !.bestRank = rank,
                               !.bestFar = im.far, !.cands = @ \cup {cand}]
       ELSE ape' = [st1 EXCEPT !.oob = @ \/ im.oob, !.cands = @ \cup {cand}]

\* the first SigBytes bytes of a payload outside a buffer: not mapped,
\* zeros, or the start of an image of each kind the screen knows
ForeignHeads ==
    {[k \in 1..SigBytes |-> 0 - 1], [k \in 1..SigBytes |-> 0]}
    \cup {[k \in 1..SigBytes |-> IF k <= Len(h) THEN h[k] ELSE 255] :
             h \in {JpegStub, <<137, 80, 78, 71, 13, 10, 26, 10>>,
                    <<71, 73, 70, 56, 57, 97>>, <<66, 77>>, <<0, 0, 1, 0, 1, 0>>}}

\* the bytes the signature screen looks at, for a payload of size bytes at
\* index off of the tag buffer; behind the buffer they are the bytes far
ApeHead(off, size, far) ==
    LET base == W2Nat(ape.absStart)
        sz   == W2Nat(ape.size)
        n    == IF WLt(DW(SigBytes), size) THEN SigBytes ELSE W2Nat(size)
    IN  [k \in 1..n |-> IF WLt(Nat2W(k - 1, 5), WSub(Nat2W(sz, 5), off))
                           /\ WLt(off, Nat2W(sz, 5))
                        THEN FileByte(file, base + W2Nat(off) + k - 1) ELSE far[k]]

\* Where the first zero byte behind the buffer may lie when the payload
\* behind it is handed to the decoder: the range is cut at the payload
\* lengths the decoder tells apart (line 596 and the lengths the signature
\* screen asks for)
ApeZeroAtDecode(st) ==
    LET best == WAdd(ZExt(st.bestSize, 5), ZExt(st.zero, 5))
    IN  Cut(st.zero, WAdd(st.zero, st.span),
            IF st.hasBest /\ st.bestFar
            THEN UNION {Fits(WSub(best, Nat2W(n, 5))) :
                           n \in {m \in (0..SigBytes) \cup {kMaxImageBytes} :
                                     WLe(Nat2W(m, 5), best)}}
            ELSE {})

\* a parser that goes on to another candidate when the best one does not
\* decode
APE_Select_Retry ==
    /\ \/ ape.pc = "select"
       \/ ape.pc = "items" /\ ~WLe(WAdd(ape.pos, DW(8)), ape.size)
    /\ KeepAPE
    /\ fpos' = fpos
    /\ \E pixelOk \in BOOLEAN, far \in ForeignHeads, g \in ApeZeroAtDecode(ape) :
       \E c \in {c \in ApeShift(ape, g).cands : Len(ape.decodes) < 2}
                \cup {[off |-> ApeShift(ape, g).bestOff, imgLen |-> ApeShift(ape, g).bestSize,
                       far |-> ape.bestFar, rank |-> ape.bestRank]} :
       LET at    == ApeShift(ape, g)
           head  == ApeHead(c.off, c.imgLen, far)
           reads == ape.hasBest /\ c.imgLen # DW(0) /\ WLe(c.imgLen, DW(kMaxImageBytes))
           fault == reads /\ \E k \in 1..Len(head) : head[k] < 0
           r     == reads /\ ~fault /\ Img_LoadFromMemoryToBitmap(head, c.imgLen, pixelOk)
           d     == [off |-> c.off, size |-> c.imgLen,
                     span |-> IF c.far THEN at.span ELSE DW(0), ok |-> r]
           a     == [at EXCEPT !.decodes = IF ape.hasBest THEN Append(@, d) ELSE @]
       IN  ape' = IF fault THEN [a EXCEPT !.pc = "crash", !.crash = TRUE, !.oob = TRUE]
                  ELSE IF ape.hasBest /\ ~r /\ Len(ape.decodes) = 0
                  THEN [a EXCEPT !.pc = "select"]
                  ELSE [a EXCEPT !.pc = "done", !.ok = r]

\* Lines 140-141: the best candidate, if any, is decoded.  A payload behind
\* the buffer is what the memory there holds: the decoder may take it,
\* refuse it, or meet memory that is not mapped.  The call is recorded as
\* (off + j, size - j) for one j in 0 .. span.
APE_Select ==
    /\ \/ ape.pc = "select"
       \/ ape.pc = "items" /\ ~WLe(WAdd(ape.pos, DW(8)), ape.size)
    /\ KeepAPE
    /\ fpos' = fpos
    /\ \E pixelOk \in BOOLEAN, far \in ForeignHeads, g \in ApeZeroAtDecode(ape) :
       LET at    == ApeShift(ape, g)
           head  == ApeHead(at.bestOff, at.bestSize, far)
           reads == ape.hasBest /\ at.bestSize # DW(0)
                    /\ WLe(at.bestSize, DW(kMaxImageBytes))
           fault == reads /\ \E k \in 1..Len(head) : head[k] < 0
           r     == reads /\ ~fault
                    /\ Img_LoadFromMemoryToBitmap(head, at.bestSize, pixelOk)
           d     == [off |-> at.bestOff, size |-> at.bestSize,
                     span |-> IF ape.bestFar THEN at.span ELSE DW(0), ok |-> r]
           a     == [at EXCEPT !.decodes = IF ape.hasBest THEN Append(@, d) ELSE @]
       IN
       ape' = IF fault THEN [a EXCEPT !.pc = "crash", !.crash = TRUE, !.oob = TRUE]
              ELSE [a EXCEPT !.pc = "done", !.ok = r]

NextAPE == APE_Open \/ APE_Item \/ APE_Select

SpecAPE == InitAPE /\ [][NextAPE]_vars

(***************************************************************************)
(* Properties of the APE extractor                                         *)
(***************************************************************************)
\* C3: every item the parser accepts has its value inside the tag buffer:
\* value start + declared value size <= buffer size, the sum taken without
\* wrap-around, for every 32-bit declared value size
C3_AcceptedItemInsideBuffer ==
    ape.item.accepted =>
        WLe(WAdd(ZExt(ape.item.valStart, 5), ZExt(ape.item.valSize, 5)),
            ZExt(ape.size, 5))

\* C7: the parse position strictly increases with every item processed, so
\* the item loop ends
C7_ItemPositionIncreases ==
    [][(ape.pc = "items" /\ ape'.pc = "items") => WLt(ape.pos, ape'.pos)]_vars

\* the size ceilings the program hard-codes: the APE scan window
\* (ape_reader.cpp:40), the FLAC block ceiling (flac_reader.cpp:88) and the
\* 32 MiB of the ID3v2 tag, the MP4 payload and the decoder
\* (id3v2_reader.cpp:64, mp4_reader.cpp:331, image_loader.cpp:63)
C10_Ceilings == {4096, 16 * 1024 * 1024, kMaxImageBytes}

\* C10: a declared tag size above a hard-coded safety ceiling, a constant
\* that does not depend on the size of the file, is rejected before the tag
\* body buffer is allocated: whenever that buffer is allocated, the declared
\* tag size is within one of the ceilings the program hard-codes; the scan
\* window, the only other buffer, is at most 4096 bytes
C10_TagSizeUnderFixedCeiling ==
    /\ ape.scanAlloc <= 4096
    /\ \E c \in C10_Ceilings : ape.bodyAlloc # <<>> => WLe(ape.totalSize, DW(c))

\* the payload of a candidate when the first zero byte behind the buffer
\* lies j bytes behind the nearest place it may have
C14_Len(c, j) == IF c.far THEN WSub(c.imgLen, j) ELSE c.imgLen

\* C14: among the picture candidates with a non-empty image payload of the
\* parsed items, the selected one has the lowest rank present (front 0,
\* generic 1, back 2), whatever the order of the items, and among the
\* candidates of that rank it has the largest image payload.  The payloads
\* behind the buffer are compared at both ends of the range of the zero
\* byte there; between the ends the difference of two payloads changes by
\* equal steps or not at all.
C14_LowestRankLargestPayload ==
    /\ ape.hasBest <=> ape.cands # {}
    /\ ape.hasBest =>
          LET best == [off |-> ape.bestOff, rank |-> ape.bestRank,
                       imgLen |-> ape.bestSize, far |-> ape.bestFar]
          IN  /\ best \in ape.cands
              /\ ape.bestRank \in {0, 1, 2}
              /\ \A c \in ape.cands, j \in {DW(0), ape.span} :
                    /\ ape.bestRank <= c.rank
                    /\ C14_Len(c, j) # DW(0)
                    /\ c.rank = ape.bestRank => WLe(C14_Len(c, j), C14_Len(best, j))

\* the parse is over; a back cover, a generic cover and a larger generic
\* cover were seen, one of them with its payload behind the buffer, and the
\* larger generic cover is selected
C14_Witness ==
    /\ ape.pc = "done"
    /\ \E c \in ape.cands : c.rank = 2
    /\ \E c \in ape.cands : c.rank = 1 /\ WLt(c.imgLen, ape.bestSize)
    /\ ape.bestRank = 1
    /\ \E c \in ape.cands : c.far

\* C17: the decoder is called at most once in an extraction, and on the
\* best candidate of the whole item list; when no item is a candidate, or
\* when that one decode fails, the result is None, other candidates or not
C17_OneDecodeNoFallback ==
    /\ Len(ape.decodes) <= 1
    /\ ape.decodes # <<>> => /\ ape.pc \in {"done", "crash"}
                             /\ ape.hasBest
                             /\ ape.decodes[1].off = ape.bestOff
                             /\ ape.decodes[1].size = ape.bestSize
    /\ ape.pc = "done" =>
          /\ ape.hasBest <=> ape.decodes # <<>>
          /\ ape.ok <=> (ape.decodes # <<>> /\ ape.decodes[1].ok)
    /\ ape.pc = "crash" => ~ape.ok

\* the one decode failed and the result is None although other candidates
\* were parsed, one of them with its payload behind the buffer
C17_Witness ==
    /\ ape.pc = "done"
    /\ ~ape.ok
    /\ Len(ape.decodes) = 1
    /\ \E c \in ape.cands : c.off # ape.bestOff
    /\ \E c \in ape.cands : c.far

\* the key of the item accepted last, as it lies in the file in front of
\* its zero byte
C25_Key ==
    LET a == W2Nat(ape.absStart) + W2Nat(ape.item.keyStart)
        n == W2Nat(ape.item.valStart) - 1 - W2Nat(ape.item.keyStart)
    IN  [i \in 1..n |-> FileByte(file, a + i - 1)]

RECURSIVE C25_Normal(_)
\* a key lowercased and with every non-alphabetic character removed
C25_Normal(k) ==
    IF k = <<>> THEN <<>>
    ELSE LET c == Head(k)
         IN  (IF c \in 65..90 THEN <<c + 32>> ELSE IF c \in 97..122 THEN <<c>> ELSE <<>>)
             \o C25_Normal(Tail(k))

\* the word w occurs in the text t
C25_Has(t, w) == \E i \in 0..(Len(t) - Len(w)) : \A j \in 1..Len(w) : t[i + j] = w[j]

\* the rank of the claim for a normalised key: -1 stands for no candidate
C25_Rank(t) ==
    IF ~(C25_Has(t, <<99, 111, 118, 101, 114>>)
         \/ C25_Has(t, <<112, 105, 99, 116, 117, 114, 101>>)) THEN -1
    ELSE IF C25_Has(t, <<102, 114, 111, 110, 116>>) THEN 0
    ELSE IF C25_Has(t, <<98, 97, 99, 107>>) THEN 2
    ELSE 1

\* C25 as stated: for a key of any length the item is a picture candidate
\* exactly when the key, lowercased and with every non-alphabetic character
\* removed, contains "cover" or "picture"; its rank is 0 if that normalised
\* key contains "front", else 2 if it contains "back", else 1
C25_RankOfWholeKey ==
    ape.item.accepted => ape.item.rank = C25_Rank(C25_Normal(C25_Key))

\* C25, amended: the same for the first 63 characters of the normalised key
C25_RankOfFirst63Letters ==
    ape.item.accepted =>
        ape.item.rank = C25_Rank(SubSeq(C25_Normal(C25_Key), 1,
                                        Min2(63, Len(C25_Normal(C25_Key)))))

\* an item whose key "Back Cover/Front" names both sides has been ranked 0
C25_Witness ==
    /\ ape.item.accepted
    /\ ape.item.rank = 0
    /\ C25_Has(C25_Normal(C25_Key), <<98, 97, 99, 107>>)
    /\ Len(C25_Normal(C25_Key)) < Len(C25_Key)

\* the size field (little-endian, at bytes 12..15) of a footer at offset o
C26_SizeAt(o) ==
    FileByte(file, o + 12) + FileByte(file, o + 13) * 256
    + FileByte(file, o + 14) * 65536 + FileByte(file, o + 15) * 16777216

\* the offsets in the last min(file size, 4096) bytes at which a 32-byte
\* footer "APETAGEX" lies with a size field in 32 .. file size
C26_Footers ==
    {o \in (FileLen(file) - Min2(FileLen(file), 4096))..(FileLen(file) - 32) :
        /\ FileByte(file, o) = ApeSig[1]
        /\ [k \in 1..8 |-> FileByte(file, o + k - 1)] = ApeSig
        /\ C26_SizeAt(o) >= 32
        /\ C26_SizeAt(o) <= FileLen(file)}

\* the highest of them
C26_FooterOffset == CHOOSE o \in C26_Footers : \A q \in C26_Footers : q <= o

\* nothing of a tag body has been looked at
C26_NothingParsed ==
    /\ ape.pc = "done"
    /\ ~ape.ok
    /\ ~ape.item.accepted
    /\ ape.cands = {}
    /\ ape.decodes = <<>>

\* C26: a tag body that is parsed is exactly the size - 32 file bytes in
\* [footer_offset + 32 - size, footer_offset), footer_offset being the
\* highest offset in the last min(file size, 4096) bytes that holds
\* "APETAGEX" with 32 <= size <= file size; when footer_offset + 32 - size
\* is negative or the file is shorter than 32 bytes, the result is None
C26_BodyInFrontOfFooter ==
    /\ ape.pc \in {"items", "select", "crash"} \/ ape.item.accepted \/ ape.ok =>
           /\ C26_Footers # {}
           /\ C26_FooterOffset + 32 >= C26_SizeAt(C26_FooterOffset)
           /\ ape.absFooter = DW(C26_FooterOffset)
           /\ ape.absStart = DW(C26_FooterOffset + 32 - C26_SizeAt(C26_FooterOffset))
           /\ ape.size = DW(C26_SizeAt(C26_FooterOffset) - 32)
    /\ (ape.pc # "start"
        /\ (\/ FileLen(file) < 32
            \/ C26_Footers = {}
            \/ C26_FooterOffset + 32 < C26_SizeAt(C26_FooterOffset))) => C26_NothingParsed

\* the items of the second of two tags are parsed: the footer found is not
\* the first one of the file
C26_Witness ==
    /\ ape.pc = "items"
    /\ \E o \in C26_Footers : o < C26_FooterOffset
    /\ ape.absStart # DW(0)
    /\ ape.absFooter = DW(C26_FooterOffset)

(***************************************************************************)
(* FLAC extractor (Extensions/flac_reader.cpp)                             *)
(*                                                                         *)
(* FLAC_BlockReader compares pointers: _p + n is computed in the width of  *)
(* a pointer of the build (4 bytes on the 32-bit build Winamp loads, 8 on  *)
(* a 64-bit one) and wraps at that width.  A reader is the record m of the *)
(* block (file f, body at file offset off, length L, buffer at address     *)
(* base, memory far outside the buffer) and the address p.  The buffer of  *)
(* each block is allocated anew: its address is the allocator's choice,    *)
(* and what the process holds outside the buffer is not in the reader's    *)
(* hands: far.w3 and far.w4 are the four bytes the third and the fourth    *)
(* ReadU32 find where they read outside the buffer, far.head the bytes the *)
(* decoder finds there, -1 where no memory is mapped.  These bytes may be  *)
(* any: the values they can have are split into the ranges within which   *)
(* the reader goes the same way, and the reader is run on one value of     *)
(* each range.  pic.pData is kept as pData - buf.                          *)
(***************************************************************************)
kMaxBlock == 16777216

FlacEnd(m) == WAdd(m.base, ZExt(m.L, m.w))

\* the offset of address p from the start of the buffer
FlacRel(m, p) ==
    IF WLe(m.base, p) THEN W2Nat(WSub(p, m.base)) ELSE 0 - W2Nat(WSub(m.base, p))

\* the byte at offset r of the buffer: of the block body, or the byte out
\* that the memory outside the buffer holds there (-1 where none is mapped)
FlacMem(m, r, out) ==
    IF r >= 0 /\ r < W2Nat(m.L) THEN FileByte(m.f, m.off + r) ELSE out

\* Lines 33-37
SafeSkip(m, p, bytes) ==
    LET q == WAdd(p, ZExt(bytes, m.w))
    IN  IF WLt(FlacEnd(m), q) THEN [ok |-> FALSE, p |-> p] ELSE [ok |-> TRUE, p |-> q]

\* Lines 41-46; out are the four bytes found at p where p is outside the buffer
ReadU32(m, p, out) ==
    LET r == FlacRel(m, p)
        b == [k \in 1..4 |-> FlacMem(m, r + k - 1, out[k])]
    IN  IF WLt(FlacEnd(m), WAdd(p, ZExt(DW(4), m.w)))
        THEN [v |-> DW(0), p |-> p, crash |-> FALSE, oob |-> FALSE]
        ELSE IF \E k \in 1..4 : b[k] < 0
        THEN [v |-> DW(0), p |-> p, crash |-> TRUE, oob |-> TRUE]
        ELSE [v |-> BE32(b), p |-> WAdd(p, ZExt(DW(4), m.w)), crash |-> FALSE,
              oob |-> r < 0 \/ r + 4 > W2Nat(m.L)]

\* Line 54
HasBytes(m, p, n) == WLe(WAdd(p, ZExt(n, m.w)), FlacEnd(m))

\* the bytes the signature screen of the decoder looks at, -1 where the
\* payload lies in memory that is not mapped
FlacHead(m, pData, dataLen) ==
    LET n == IF WLt(DW(SigBytes), dataLen) THEN SigBytes ELSE W2Nat(dataLen)
    IN  [k \in 1..n |-> FlacMem(m, FlacRel(m, pData) + k - 1, m.far.head[k])]

\* Lines 118-133: the fields of a PICTURE block body up to the image payload;
\* pData is given as pData - buf, head are the bytes the decoder's screen
\* sees, p3 and p4 the addresses of the third and the fourth ReadU32 where
\* the reader got that far
FlacPicture(m) ==
    LET none(t, c, o, a3, a4) ==
            [called |-> FALSE, crash |-> c, oob |-> o \/ c, picType |-> t,
             pData |-> 0, dataLen |-> DW(0), head |-> <<>>, p3 |-> a3, p4 |-> a4]
    IN
    Then(ReadU32(m, m.base, NoWord), LAMBDA r1 :
    Then(ReadU32(m, r1.p, NoWord), LAMBDA r2 :
    IF r1.crash \/ r2.crash THEN none(r1.v, TRUE, TRUE, NoWord, NoWord) ELSE
    Then(SafeSkip(m, r2.p, r2.v), LAMBDA s1 :
    IF ~s1.ok THEN none(r1.v, FALSE, r1.oob \/ r2.oob, NoWord, NoWord) ELSE
    Then(ReadU32(m, s1.p, m.far.w3), LAMBDA r3 :
    IF r3.crash THEN none(r1.v, TRUE, TRUE, s1.p, NoWord) ELSE
    Then(SafeSkip(m, r3.p, r3.v), LAMBDA s2 :
    IF ~s2.ok THEN none(r1.v, FALSE, r1.oob \/ r2.oob \/ r3.oob, s1.p, NoWord) ELSE
    Then(SafeSkip(m, s2.p, DW(16)), LAMBDA s3 :
    IF ~s3.ok THEN none(r1.v, FALSE, r1.oob \/ r2.oob \/ r3.oob, s1.p, NoWord) ELSE
    Then(ReadU32(m, s3.p, m.far.w4), LAMBDA r4 :
    IF r4.crash THEN none(r1.v, TRUE, TRUE, s1.p, s3.p) ELSE
    [called |-> HasBytes(m, r4.p, r4.v), crash |-> FALSE,
     oob |-> r1.oob \/ r2.oob \/ r3.oob \/ r4.oob,
     picType |-> r1.v, pData |-> FlacRel(m, r4.p), dataLen |-> r4.v,
     head |-> FlacHead(m, r4.p, r4.v), p3 |-> s1.p, p4 |-> s3.p])))))))

\* memory of which nothing is mapped outside the buffer
NoForeign == [w3 |-> NoWord, w4 |-> NoWord, head |-> [k \in 1..SigBytes |-> 0 - 1]]

\* Of a word that begins less than four bytes in front of the buffer the
\* low bytes lie in the buffer: n says how many, k holds them
FlacKnown(m, p) ==
    LET r == FlacRel(m, p)
        n == IF r < 0 /\ r > 0 - 4 THEN 4 + r ELSE 0
    IN  [n |-> n, k |-> [i \in 1..4 |-> IF i <= n THEN FlacMem(m, r + 4 - i, 0) ELSE 0]]

\* the least word from lo on, and the largest up to hi, with the low bytes
\* kn (as a set: there may be none)
FlacUp(lo, kn) ==
    LET c == [i \in 1..4 |-> IF i <= kn.n THEN kn.k[i] ELSE lo[i]]
    IN  IF WLe(lo, c) THEN {c}
        ELSE Fits(WAdd(ZExt(c, 5), [i \in 1..5 |-> IF i = kn.n + 1 THEN 1 ELSE 0]))

FlacDown(hi, kn) ==
    LET c    == [i \in 1..4 |-> IF i <= kn.n THEN kn.k[i] ELSE hi[i]]
        step == [i \in 1..4 |-> IF i = kn.n + 1 THEN 1 ELSE 0]
    IN  IF WLe(c, hi) THEN {c} ELSE IF WLe(step, c) THEN {WSub(c, step)} ELSE {}

\* The payload lengths the fourth ReadU32 may find in front of the buffer,
\* for a payload at one of the addresses Q (pointers of 4 bytes): one of
\* each range within which lines 54 and 596 and the signature screen go
\* the same way, with the end of its range.  kn are the bytes of the
\* length that lie in the buffer.
FlacLens(m, Q, kn) ==
    LET T == {DW(k) : k \in 1..(SigBytes + 1)} \cup {DW(kMaxImageBytes + 1)}
             \cup UNION {{WAdd(WSub(FlacEnd(m), q), DW(1)), WSub(DW(0), q)} : q \in Q}
    IN  UNION {{[w |-> a, to |-> g.hi] : a \in {x \in FlacUp(g.lo, kn) : WLe(x, g.hi)}} :
                  g \in Cut(DW(0), <<255, 255, 255, 255>>, T)}

\* The description lengths the third ReadU32 may find at address p3 in
\* front of the buffer (pointers of 4 bytes).  A length w puts the fourth
\* ReadU32 at p3 + 20 + w.  There is one length for each place of the fourth
\* read from SigBytes + 3 bytes in front of the buffer to its end, one that
\* leaves the block (lines 34 and 54), and the least and the largest that put
\* the fourth read further in front of the buffer: there neither the length
\* read nor the payload has a byte of the buffer; to such a length belong
\* the payload addresses Q of the two.
FlacDescLens(m, p3) ==
    LET kn     == FlacKnown(m, p3)
        lenFor(a) == WSub(WSub(a, p3), DW(20))
        fits(w) == \A i \in 1..kn.n : w[i] = kn.k[i]
        near   == {WAdd(m.base, DW(r)) : r \in 0..W2Nat(m.L)}
                  \cup {WSub(m.base, DW(j)) :
                           j \in {i \in 1..(SigBytes + 3) : WLe(DW(i + 16), m.base)}}
        lo3    == lenFor(DW(16))
        hi3    == lenFor(WSub(m.base, DW(SigBytes + 4)))
        reg    == IF WLe(DW(SigBytes + 20), m.base)
                  THEN {a \in FlacUp(lo3, kn) : WLe(WSub(a, lo3), WSub(hi3, lo3))}
                       \cup {b \in FlacDown(hi3, kn) : WLe(WSub(hi3, b), WSub(hi3, lo3))}
                  ELSE {}
    IN  {[w |-> lenFor(a), Q |-> {}] : a \in {b \in near : fits(lenFor(b))}}
        \cup {[w |-> a, Q |-> {}] : a \in FlacUp(lenFor(WAdd(FlacEnd(m), DW(17))), kn)}
        \cup {[w |-> a, Q |-> {WAdd(WAdd(p3, DW(24)), b) : b \in reg}] : a \in reg}

\* a picture with the ranges of its payload address and length: the reader
\* has an address from pData to pTo and a length from dataLen to lenTo in
\* line 133, and the decoder, where it is called, is called with them
FlacBox(pic, pLo, pTo, lenTo) ==
    [called |-> pic.called, crash |-> pic.crash, oob |-> pic.oob,
     picType |-> pic.picType, head |-> pic.head, dataLen |-> pic.dataLen,
     pData |-> pLo, pTo |-> pTo, lenTo |-> lenTo]

\* the picture as it is
FlacExact(pic) == FlacBox(pic, pic.pData, pic.pData, pic.dataLen)

\* The ways the parse takes from the fourth ReadU32 on, for a reader m with
\* its third length drawn; Q are the payload addresses where that length is
\* one of a range
FlacFourth(m, Q) ==
    Then(FlacPicture(m), LAMBDA r0 :
    IF ~(r0.crash /\ r0.p4 # NoWord) THEN {FlacExact(r0)}
    ELSE LET at  == IF Q = {} THEN {WAdd(r0.p4, DW(4))} ELSE Q
             lo  == CHOOSE q \in at : \A u \in at : WLe(q, u)
             hi  == CHOOSE q \in at : \A u \in at : WLe(u, q)
         IN  {FlacExact(r0)}
             \cup {FlacBox(FlacPicture([m EXCEPT !.far.w4 = BE32(c.w), !.far.head = h]),
                           FlacRel(m, lo), FlacRel(m, hi), c.to) :
                      c \in FlacLens(m, at, FlacKnown(m, r0.p4)), h \in ForeignHeads})

\* The ways the parse of a PICTURE block body takes.  m is the reader with
\* no memory mapped outside the buffer: where it meets none the parse stays
\* in the buffer; where the third or the fourth ReadU32 leaves the buffer,
\* the parse takes one way for each range of the lengths found there, or
\* ends where the memory is not mapped.
FlacOutcomes(m) ==
    Then(FlacPicture(m), LAMBDA r0 :
    IF ~r0.crash THEN {FlacExact(r0)}
    ELSE IF r0.p4 # NoWord THEN FlacFourth(m, {})
    ELSE {FlacExact(r0)}
         \cup UNION {FlacFourth([m EXCEPT !.far.w3 = BE32(c.w)], c.Q) :
                        c \in FlacDescLens(m, r0.p3)})

(***************************************************************************)
(* Input files of the FLAC extractor                                       *)
(***************************************************************************)
MaxBlocks == 2

FlacBlock(last, type, body) ==
    <<(IF last THEN 128 ELSE 0) + type, 0, 0, Len(body)>> \o body

Zero16 == <<0, 0, 0, 0,  0, 0, 0, 0,  0, 0, 0, 0,  0, 0, 0, 0>>

\* a PICTURE body: type, MIME, description, geometry, payload length, payload
PicBody(picType, mimeLen, mime, descLen, desc, dataLen, data) ==
    <<0, 0, 0, picType>> \o mimeLen \o mime \o descLen \o desc \o Zero16
        \o dataLen \o data

FlacBodies ==
    { <<0, <<1, 2>>>>,
      <<6, PicBody(3, <<0, 0, 0, 1>>, <<97>>, <<0, 0, 0, 0>>, <<>>,
                   <<0, 0, 0, 4>>, JpegStub)>>,
      <<6, PicBody(4, <<0, 0, 0, 0>>, <<>>, <<0, 0, 0, 1>>, <<98>>,
                   <<0, 0, 0, 5>>, JpegStub \o <<7>>)>>,
      \* the payload length is 2^32 - 1
      <<6, PicBody(3, <<0, 0, 0, 0>>, <<>>, <<0, 0, 0, 0>>, <<>>,
                   <<255, 255, 255, 255>>, <<>>)>>,
      \* the MIME length is 2^32 - 8
      <<6, PicBody(3, <<255, 255, 255, 248>>, <<>>, <<0, 0, 0, 0>>, <<>>,
                   <<0, 0, 0, 4>>, JpegStub)>>,
      \* the payload length is larger than what the block holds
      <<6, PicBody(3, <<0, 0, 0, 0>>, <<>>, <<0, 0, 0, 0>>, <<>>,
                   <<0, 0, 0, 9>>, JpegStub)>>,
      <<6, <<0, 0, 0, 3>>>> }

FlacBlocks == {FlacBlock(l, tb[1], tb[2]) : l \in BOOLEAN, tb \in FlacBodies}

FlacSig == <<102, 76, 97, 67>>

FlacFiles(n) ==
    {Bytes(lead \o FlacSig \o Flatten(bl)) :
        lead \in {<<>>, Id3Header(3, 0, <<0, 0, 0, 0>>),
                  Id3Header(4, 0, <<0, 0, 0, 3>>) \o <<1, 2, 3>>},
        bl \in SeqsUpTo(FlacBlocks, n)}
    \cup
    {Bytes(<<>>), Bytes(FlacSig), Bytes(<<79, 103, 103, 83, 0, 0, 0, 0, 0, 0, 0, 0>>),
     \* a block header that declares more than the file holds
     Bytes(FlacSig \o <<134, 0, 0, 60>> \o
           PicBody(3, <<0, 0, 0, 0>>, <<>>, <<0, 0, 0, 0>>, <<>>, <<0, 0, 0, 4>>, JpegStub)),
     Bytes(FlacSig \o <<0, 0, 0, 9>> \o <<1, 2>>),
     \* an ID3v2 tag of 131 bytes (size bytes 00 00 01 03) in front of the stream
     [pre |-> Id3Header(4, 0, <<0, 0, 1, 3>>), fill |-> 131,
      post |-> FlacSig \o <<129, 0, 0, 0>>],
     \* the same with the high bits of the size bytes set, and no stream behind
     [pre |-> Id3Header(4, 0, <<128, 128, 129, 131>>), fill |-> 131,
      post |-> <<79, 103, 103, 83>> \o <<129, 0, 0, 0>>],
     \* a MIME length of 2^32 - 16, alone and behind another picture; a
     \* description length of 2^32 - 32
     Bytes(FlacSig \o FlacBlock(TRUE, 6,
           PicBody(3, <<255, 255, 255, 240>>, <<>>, <<0, 0, 0, 0>>, <<>>, <<0, 0, 0, 4>>, JpegStub))),
     Bytes(FlacSig \o FlacBlock(FALSE, 6,
           PicBody(4, <<0, 0, 0, 0>>, <<>>, <<0, 0, 0, 1>>, <<98>>, <<0, 0, 0, 5>>, JpegStub \o <<7>>))
           \o FlacBlock(TRUE, 6,
           PicBody(3, <<255, 255, 255, 240>>, <<>>, <<0, 0, 0, 0>>, <<>>, <<0, 0, 0, 4>>, JpegStub))),
     Bytes(FlacSig \o FlacBlock(TRUE, 6,
           PicBody(3, <<0, 0, 0, 0>>, <<>>, <<255, 255, 255, 224>>, <<>>, <<0, 0, 0, 4>>, JpegStub))),
     \* a MIME length of 2^32 - 10 and a description length of 2^32 - 30: the
     \* next length is read from two bytes in front of the buffer on
     Bytes(FlacSig \o FlacBlock(TRUE, 6,
           PicBody(3, <<255, 255, 255, 246>>, <<>>, <<0, 0, 0, 0>>, <<>>, <<0, 0, 0, 4>>, JpegStub))),
     Bytes(FlacSig \o FlacBlock(TRUE, 6,
           PicBody(3, <<0, 0, 0, 0>>, <<>>, <<255, 255, 255, 226>>, <<>>, <<0, 0, 0, 4>>, JpegStub))),
     \* MIME lengths of 0xFE000000 and 0x90000000
     Bytes(FlacSig \o FlacBlock(TRUE, 6,
           PicBody(3, <<254, 0, 0, 0>>, <<>>, <<0, 0, 0, 0>>, <<>>, <<0, 0, 0, 4>>, JpegStub))),
     Bytes(FlacSig \o FlacBlock(TRUE, 6,
           PicBody(3, <<144, 0, 0, 0>>, <<>>, <<0, 0, 0, 0>>, <<>>, <<0, 0, 0, 4>>, JpegStub)))}

\* where the allocator places a block buffer: 0x00100000, 0x02A40000,
\* 0x7FFE0000
FlacBase == {<<0, 0, 16, 0>>, <<0, 0, 164, 2>>, <<0, 0, 254, 127>>}

\* the width of a pointer: the 32-bit build and a 64-bit one
FlacBuilds == {4, 8}

InitFLAC ==
    /\ file \in FlacFiles(MaxBlocks)
    /\ fpos = QW(0)
    /\ cw = CwIdle
    /\ ui = UiIdle
    /\ id3 = Id3Idle
    /\ ape = ApeIdle
    /\ mp4 = Mp4Idle
    /\ \E b \in FlacBuilds : flac = [FlacIdle EXCEPT !.pc = "start", !.ptrW = b]

\* what the FLAC extractor leaves alone
KeepFLAC == UNCHANGED <<file, id3, ape, mp4, cw, ui>>

\* Lines 61-84: the ID3v2 tag in front is skipped, the marker is checked
FLAC_Open ==
    /\ flac.pc = "start"
    /\ KeepFLAC
    /\ LET probeOk == ReadOk(file, fpos, DW(10))
           probe   == ReadBytes(file, fpos, DW(10))
           p1      == ReadPos(file, fpos, DW(10))
           p2      == IF ~probeOk THEN p1
                      ELSE IF probe[1] = 73 /\ probe[2] = 68 /\ probe[3] = 51
                           THEN SeekCur(p1, SyncSafeToInt(SubSeq(probe, 7, 10)))
                           ELSE QW(0)
           sigOk   == ReadOk(file, p2, DW(4))
           short   == {k \in {"probe"} : ~probeOk} \cup {k \in {"marker"} : ~sigOk}
       IN  /\ fpos' = ReadPos(file, p2, DW(4))
           /\ IF sigOk /\ ReadBytes(file, p2, DW(4)) = FlacSig
              THEN flac' = [flac EXCEPT !.pc = "blocks", !.short = short,
                                        !.sigOff = p2]
              ELSE flac' = [flac EXCEPT !.pc = "done", !.ok = FALSE, !.short = short,
                                        !.sigOff = p2]

\* every decoded picture counts as a front cover
FlacIsFront_Any(picType) == TRUE

\* Line 139: picType == 3
FlacIsFront(picType) == picType = DW(3)

\* Lines 92-162: one metadata block
FLAC_Block ==
    /\ flac.pc = "blocks"
    /\ KeepFLAC
    /\ \E allocOk \in BOOLEAN,
          hdr \in {IF ReadOk(file, fpos, DW(4)) THEN ReadBytes(file, fpos, DW(4))
                   ELSE <<0, 0, 0, 0>>} :
       LET hdrOk  == ReadOk(file, fpos, DW(4))
           p1     == ReadPos(file, fpos, DW(4))
           isLast == hdr[1] >= 128
           type   == hdr[1] % 128
           length == BE24(SubSeq(hdr, 2, 4))
           next   == IF isLast THEN "finish" ELSE "blocks"
           m(heap) == [f |-> file, off |-> W2Nat(p1), L |-> length,
                       base |-> ZExt(heap, flac.ptrW), w |-> flac.ptrW,
                       far |-> NoForeign]
           blk    == [off |-> fpos, type |-> type, last |-> isLast, parsed |-> FALSE,
                      picType |-> DW(0), decoded |-> FALSE]
           seen   == [flac EXCEPT !.blocks = Append(@, blk)]
       IN
       IF ~hdrOk
       THEN /\ fpos' = p1
            /\ flac' = [flac EXCEPT !.pc = "finish", !.short = @ \cup {"header"}]
       ELSE IF type # 6 \/ WLt(DW(kMaxBlock), length)
       THEN /\ fpos' = SeekCur(p1, length)
            /\ flac' = [seen EXCEPT !.pc = next]
       ELSE IF ~allocOk
       THEN /\ fpos' = p1
            /\ flac' = [seen EXCEPT !.pc = "finish", !.noMem = TRUE]
       ELSE IF ~ReadOk(file, p1, length)
       THEN /\ fpos' = ReadPos(file, p1, length)
            /\ flac' = [seen EXCEPT !.pc = next, !.alloc = length, !.shortRead = TRUE,
                                    !.short = @ \cup {"body"}]
       ELSE
       \E pic \in UNION {FlacOutcomes(m(heap)) : heap \in FlacBase},
          pixelOk \in BOOLEAN :
       LET head   == pic.head
           reads  == pic.called /\ pic.dataLen # DW(0) /\ WLe(pic.dataLen, DW(kMaxImageBytes))
           fault  == reads /\ \E k \in 1..Len(head) : head[k] < 0
           ok     == reads /\ ~fault
                     /\ Img_LoadFromMemoryToBitmap(head, pic.dataLen, pixelOk)
           st1    == [flac EXCEPT !.alloc = length,
                        !.blocks = Append(@, [blk EXCEPT !.parsed = TRUE,
                                                         !.picType = pic.picType,
                                                         !.decoded = ok]),
                        !.oob = @ \/ pic.oob,
                        !.pic = [called |-> pic.called, picType |-> pic.picType,
                                 pData |-> pic.pData, dataLen |-> pic.dataLen,
                                 pTo |-> pic.pTo, lenTo |-> pic.lenTo,
                                 L |-> length, decoded |-> ok]]
       IN   /\ fpos' = ReadPos(file, p1, length)
            /\ IF pic.crash \/ fault
               THEN flac' = [st1 EXCEPT !.pc = "crash", !.crash = TRUE, !.oob = TRUE]
               ELSE IF ok /\ FlacIsFront(pic.picType)
               THEN flac' = [st1 EXCEPT !.pc = "done", !.ok = TRUE, !.retOff = fpos]
               ELSE IF ok /\ ~flac.hasFallback
               THEN flac' = [st1 EXCEPT !.pc = next, !.hasFallback = TRUE, !.fbOff = fpos]
               ELSE flac' = [st1 EXCEPT !.pc = next]

\* Lines 166-171: without a front cover the first other picture is returned
FLAC_Finish ==
    /\ flac.pc = "finish"
    /\ KeepFLAC
    /\ fpos' = fpos
    /\ flac' = [flac EXCEPT !.pc = "done", !.ok = flac.hasFallback, !.retOff = flac.fbOff]

NextFLAC == FLAC_Open \/ FLAC_Block \/ FLAC_Finish

SpecFLAC == InitFLAC /\ [][NextFLAC]_vars

(***************************************************************************)
(* Properties of the FLAC extractor                                        *)
(***************************************************************************)
\* C4: the image payload handed to the decoder lies inside the body of the
\* PICTURE block: its start is not in front of the buffer, and start +
\* payload length, taken without wrap-around, is not behind the buffer's
\* end, for all 32-bit field values and both pointer widths
C4_PayloadInsideBlock ==
    flac.pic.called =>
        /\ flac.pic.pData >= 0
        /\ WLe(WAdd(Nat2W(flac.pic.pData, 9), ZExt(flac.pic.dataLen, 9)),
               ZExt(flac.pic.L, 9))

\* C18: when a read of the extraction (the 10-byte probe, the stream
\* marker, a block header, a PICTURE block body) returns fewer bytes than
\* requested, the result is None: no picture found before is returned
C18_ShortReadYieldsNone ==
    (flac.pc = "done" /\ flac.short # {}) => ~flac.ok

\* the blocks of the run whose picture decoded, front covers or others
C13_Decoded(front) ==
    {i \in 1..Len(flac.blocks) :
        /\ flac.blocks[i].decoded
        /\ (flac.blocks[i].picType = DW(3)) = front}

\* the first of a set of block numbers
C13_First(S) == CHOOSE i \in S : \A j \in S : i <= j

\* C13: whatever the order of the PICTURE blocks up to the last-block flag,
\* the result is the first picture of type 3 that decodes, if there is one,
\* even when pictures of other types precede it; otherwise the first picture
\* of another type that decoded; otherwise None.  No block behind the
\* last-block flag is looked at, and the blocks in front of it are all
\* looked at unless a front cover has decoded, a block header is cut short
\* or the system refuses the block buffer.
C13_FrontCoverFirst ==
    /\ \A i \in 1..Len(flac.blocks) - 1 : ~flac.blocks[i].last
    /\ (flac.pc = "done" /\ flac.blocks # <<>> /\ "header" \notin flac.short
          /\ ~flac.noMem) =>
          \/ flac.blocks[Len(flac.blocks)].last
          \/ Len(flac.blocks) \in C13_Decoded(TRUE)
    /\ (flac.pc = "done" /\ flac.blocks # <<>>) =>
          IF C13_Decoded(TRUE) # {}
          THEN /\ flac.ok
               /\ flac.retOff = flac.blocks[C13_First(C13_Decoded(TRUE))].off
          ELSE IF C13_Decoded(FALSE) # {}
          THEN /\ flac.ok
               /\ flac.retOff = flac.blocks[C13_First(C13_Decoded(FALSE))].off
          ELSE ~flac.ok

\* a front cover is returned although a picture of another type decoded
\* before it
C13_Witness ==
    /\ flac.pc = "done"
    /\ flac.ok
    /\ C13_Decoded(FALSE) # {}
    /\ C13_Decoded(TRUE) # {}
    /\ C13_First(C13_Decoded(FALSE)) < C13_First(C13_Decoded(TRUE))
    /\ flac.retOff = flac.blocks[C13_First(C13_Decoded(TRUE))].off

\* the file begins with the three bytes "ID3"
C22_StartsWithId3 ==
    /\ FileLen(file) >= 3
    /\ <<FileByte(file, 0), FileByte(file, 1), FileByte(file, 2)>> = <<73, 68, 51>>

\* where the claim places the stream marker: behind the ID3v2 tag whose size
\* the header bytes 6..9 declare (7 bits each), or at the start of the file
C22_MarkerOffset ==
    IF C22_StartsWithId3 /\ FileLen(file) >= 10
    THEN 10 + (FileByte(file, 6) % 128) * 2097152 + (FileByte(file, 7) % 128) * 16384
            + (FileByte(file, 8) % 128) * 128 + (FileByte(file, 9) % 128)
    ELSE 0

\* the four bytes at the claimed marker offset are "fLaC"
C22_MarkerThere ==
    /\ C22_MarkerOffset + 4 <= FileLen(file)
    /\ [k \in 1..4 |-> FileByte(file, C22_MarkerOffset + k - 1)] = FlacSig

\* the marker was read at the claimed offset, a missing marker gives None
\* with no block read, and the first block header is read right behind it
C22_Located ==
    /\ flac.sigOff = QW(C22_MarkerOffset)
    /\ ~C22_MarkerThere => flac.pc = "done" /\ ~flac.ok /\ flac.blocks = <<>>
    /\ (flac.pc = "blocks" /\ flac.blocks = <<>>) => fpos = QW(C22_MarkerOffset + 4)
    /\ flac.blocks # <<>> => flac.blocks[1].off = QW(C22_MarkerOffset + 4)

\* C22 as stated: if the file starts with "ID3" the stream marker is read
\* at offset 10 + the sync-safe size of header bytes 6..9, otherwise at
\* offset 0; the result is None unless the 4 bytes there are "fLaC", and
\* blocks are parsed from the byte right after the marker
C22_MarkerBehindId3OrAtStart == flac.pc # "start" => C22_Located

\* C22, amended: the same for every file whose first 10 bytes can be read;
\* for a file shorter than 10 bytes the result is None and no block is read
C22_MarkerLocatedAfterProbe ==
    flac.pc # "start" =>
        IF FileLen(file) >= 10 THEN C22_Located
        ELSE flac.pc = "done" /\ ~flac.ok /\ flac.blocks = <<>>

\* a block has been read behind the marker that follows a 131-byte ID3v2 tag
C22_Witness ==
    /\ C22_StartsWithId3
    /\ flac.sigOff = QW(141)
    /\ flac.blocks # <<>>
    /\ flac.blocks[1].off = QW(145)

(***************************************************************************)
(* MP4 extractor (Extensions/mp4_reader.cpp).  Offsets and sizes are U64:  *)
(* words of 8 bytes, sums and differences modulo 2^64.                     *)
(***************************************************************************)
FCC(a, b, c, d) == <<d, c, b, a>>

Lower(c) == IF c >= 65 /\ c <= 90 THEN c + 32 ELSE c

\* Lines 46-53, on the extension of the path (with its dot)
HasMp4Ext(ext) ==
    LET e == [i \in 1..Len(ext) |-> Lower(ext[i])]
    IN  e \in {<<46, 109, 52, 97>>, <<46, 109, 52, 98>>, <<46, 109, 112, 52>>,
               <<46, 109, 52, 118>>, <<46, 109, 111, 118>>}

\* the file pointer after ReadAt(off, buf, n) when the pointer was fp
ReadAtPos(f, fp, off, n) == IF IsNeg(off) THEN fp ELSE ReadPos(f, off, n)

\* Lines 108-118: the size is checked against the header and the limit
BoxCheck(off, limit, size, type, payload, ext, fp) ==
    IF WLt(size, WSub(payload, off)) \/ WLt(limit, WAdd(off, size))
    THEN [ok |-> FALSE, off |-> off, limit |-> limit, size |-> size, type |-> type,
          payload |-> payload, ext |-> ext, fp |-> fp]
    ELSE [ok |-> TRUE, off |-> off, limit |-> limit, size |-> size, type |-> type,
          payload |-> payload, ext |-> ext, fp |-> fp]

\* Lines 79-119; fp is the file pointer before the call
ReadBoxHeader(f, fp, off, limit) ==
    LET rej(q) == [ok |-> FALSE, off |-> off, limit |-> limit, size |-> QW(0),
                   type |-> DW(0), payload |-> QW(0), ext |-> FALSE, fp |-> q]
        fp1    == ReadAtPos(f, fp, off, DW(8))
        off8   == WAdd(off, QW(8))
        fp2    == ReadAtPos(f, fp1, off8, DW(8))
    IN  IF WLt(limit, off8) THEN rej(fp)
        ELSE IF ~ReadAtOk(f, off, DW(8)) THEN rej(fp1)
        ELSE
        Then(ReadBytes(f, off, DW(8)), LAMBDA hdr :
        Then(BE32(SubSeq(hdr, 1, 4)), LAMBDA size32 :
        Then(BE32(SubSeq(hdr, 5, 8)), LAMBDA type :
        IF size32 = DW(1)
        THEN IF WLt(limit, WAdd(off, QW(16))) THEN rej(fp1)
             ELSE IF ~ReadAtOk(f, off8, DW(8)) THEN rej(fp2)
             ELSE BoxCheck(off, limit, BE64(ReadBytes(f, off8, DW(8))), type,
                           WAdd(off, QW(16)), TRUE, fp2)
        ELSE IF size32 = DW(0)
        THEN BoxCheck(off, limit, WSub(limit, off), type, off8, FALSE, fp1)
        ELSE BoxCheck(off, limit, ZExt(size32, 8), type, off8, FALSE, fp1))))

\* the hops of the traversal, lines 267-287 and 301
Mp4Next(stage) ==
    CASE stage = "ftyp" -> "moov"
      [] stage = "moov" -> "udta"
      [] stage = "udta" -> "meta"
      [] stage = "meta" -> "ilst"
      [] stage = "ilst" -> "covr"
      [] stage = "covr" -> "data"

Mp4FCC(stage) ==
    CASE stage = "ftyp" -> FCC(102, 116, 121, 112)
      [] stage = "moov" -> FCC(109, 111, 111, 118)
      [] stage = "udta" -> FCC(117, 100, 116, 97)
      [] stage = "meta" -> FCC(109, 101, 116, 97)
      [] stage = "ilst" -> FCC(105, 108, 115, 116)
      [] stage = "covr" -> FCC(99, 111, 118, 114)
      [] stage = "data" -> FCC(100, 97, 116, 97)

(***************************************************************************)
(* Input files of the MP4 extractor                                        *)
(***************************************************************************)
MaxBoxes == 2

TFtyp == <<102, 116, 121, 112>>
TMoov == <<109, 111, 111, 118>>
TUdta == <<117, 100, 116, 97>>
TMeta == <<109, 101, 116, 97>>
TIlst == <<105, 108, 115, 116>>
TCovr == <<99, 111, 118, 114>>
TData == <<100, 97, 116, 97>>
TFree == <<102, 114, 101, 101>>
TName == <<110, 97, 109, 101>>

\* the 32-bit big-endian size field of a box
BoxSize(n) == <<n \div 16777216, (n \div 65536) % 256, (n \div 256) % 256, n % 256>>

Box(type, payload) == BoxSize(Len(payload) + 8) \o type \o payload

\* a box with the 64-bit size form: size field 1, then the size in 8 bytes
BoxExt(type, size8, payload) == <<0, 0, 0, 1>> \o type \o size8 \o payload

DataPrefix == <<0, 0, 0, 13, 0, 0, 0, 0>>

CovrKids ==
    { Box(TData, DataPrefix \o JpegStub),
      Box(TData, DataPrefix \o <<1, 2, 3>>),
      Box(TData, <<0, 0, 0, 13>>),
      Box(TData, DataPrefix),
      Box(TName, <<0, 0, 0, 0, 0, 0, 0, 0>>),
      \* a declared size of 2^64 - 16
      BoxExt(TName, <<255, 255, 255, 255, 255, 255, 255, 240>>, <<>>),
      BoxExt(TData, <<0, 0, 0, 0, 0, 0, 0, 28>>, DataPrefix \o JpegStub),
      <<0, 0, 0, 0>> \o TData \o DataPrefix \o JpegStub }

TopFill ==
    { Box(TFree, <<>>),
      \* a declared size of 2^64 - 8
      BoxExt(TFree, <<255, 255, 255, 255, 255, 255, 255, 248>>, <<>>),
      BoxExt(TFree, <<0, 0, 0, 0, 0, 0, 0, 18>>, <<1, 2>>),
      <<0, 0, 0, 0>> \o TFree,
      <<0, 1, 0, 0>> \o TFree }

Ilst(kids) == Box(TIlst, Box(TCovr, kids))

Moov(kids) == Box(TMoov, Box(TUdta, Box(TMeta, <<0, 0, 0, 0>> \o Ilst(kids))))

OneData == Box(TData, DataPrefix \o JpegStub)

Mp4Files(n) ==
    {Bytes(Box(TFtyp, <<>>) \o Flatten(tf) \o Moov(OneData)) :
        tf \in SeqsUpTo(TopFill, n)}
    \cup
    {Bytes(Box(TFtyp, <<77, 52, 65, 32>>) \o Moov(Flatten(kids))) :
        kids \in SeqsUpTo(CovrKids, n)}
    \cup
    {Bytes(<<>>), Bytes(Box(TFtyp, <<>>)),
     Bytes(Box(TFtyp, <<>>) \o BoxExt(TFree, <<255, 255, 255, 255, 255, 255, 255, 248>>, <<>>)),
     Bytes(Moov(OneData)),
     \* moov holds one box of declared size 2^64 - 16
     Bytes(Box(TFtyp, <<>>) \o
           Box(TMoov, BoxExt(TFree, <<255, 255, 255, 255, 255, 255, 255, 240>>, <<>>))),
     \* udta with a cover in front of moov; moov holds one box of declared
     \* size 2^64 - 64
     Bytes(Box(TFtyp, <<>>) \o Box(TUdta, Box(TMeta, <<0, 0, 0, 0>> \o Ilst(OneData))) \o
           Box(TMoov, BoxExt(TFree, <<255, 255, 255, 255, 255, 255, 255, 192>>, <<>>))),
     Bytes(Moov(OneData) \o Box(TFtyp, <<>>)),
     Bytes(Box(TFtyp, <<>>) \o Box(TMoov, Box(TFree, <<>>))),
     Bytes(Box(TFtyp, <<>>) \o Box(TMoov, Box(TUdta, Box(TFree, <<>>)))),
     \* meta without its version and flags
     Bytes(Box(TFtyp, <<>>) \o Box(TMoov, Box(TUdta, Box(TMeta, Ilst(OneData))))),
     Bytes(Box(TFtyp, <<>>) \o Box(TMoov, Box(TUdta, Box(TMeta, <<0, 0>>)))),
     Bytes(Box(TFtyp, <<>>) \o
           Box(TMoov, Box(TUdta, Box(TMeta, <<0, 0, 0, 0>> \o Box(TIlst, Box(TName, <<>>))))))}

\* the headers of moov, udta, meta, ilst, covr and data around an image
\* payload of len bytes, with the first bytes of the payload
BigDataHead(len) ==
    Box(TFtyp, <<>>)
    \o BoxSize(len + 60) \o TMoov \o BoxSize(len + 52) \o TUdta
    \o BoxSize(len + 44) \o TMeta \o <<0, 0, 0, 0>>
    \o BoxSize(len + 32) \o TIlst \o BoxSize(len + 24) \o TCovr
    \o BoxSize(len + 16) \o TData \o DataPrefix \o JpegStub

\* files whose one image payload has 32 MiB - 1 and 32 MiB bytes
Mp4BigFiles ==
    {[pre |-> BigDataHead(len), fill |-> len - Len(JpegStub), post |-> <<>>] :
        len \in {32 * 1024 * 1024 - 1, 32 * 1024 * 1024}}

Mp4Exts == {<<46, 109, 52, 97>>, <<46, 77, 80, 52>>, <<46, 109, 112, 51>>}

InitMP4 ==
    /\ file \in Mp4Files(MaxBoxes) \cup Mp4BigFiles
    /\ fpos = QW(0)
    /\ cw = CwIdle
    /\ ui = UiIdle
    /\ id3 = Id3Idle
    /\ ape = ApeIdle
    /\ flac = FlacIdle
    /\ \E e \in Mp4Exts : mp4 = [Mp4Idle EXCEPT !.pc = "start", !.ext = e]

\* what the MP4 extractor leaves alone
KeepMP4 == UNCHANGED <<file, id3, ape, flac, cw, ui>>

Mp4Return(r) == [mp4 EXCEPT !.pc = "done", !.ok = r, !.hdrs = {}]

\* Lines 242-267: the extension and the size are checked, the search for
\* ftyp begins
MP4_Open ==
    /\ mp4.pc = "start"
    /\ KeepMP4
    /\ fpos' = fpos
    /\ IF ~HasMp4Ext(mp4.ext) \/ WLt(ZExt(GetSize(file), 8), QW(16))
       THEN mp4' = Mp4Return(FALSE)
       ELSE mp4' = [mp4 EXCEPT !.pc = "scan", !.stage = "ftyp", !.pos = QW(0),
                               !.limit = ZExt(GetSize(file), 8)]

\* Lines 144-163, one box of FindFirstBox; when the box is the one looked
\* for, the next search is set up (lines 271, 189-206, 291-301)
MP4_ScanBox ==
    /\ mp4.pc = "scan"
    /\ mp4.stage # "data"
    /\ WLe(WAdd(mp4.pos, QW(8)), mp4.limit)
    /\ KeepMP4
    /\ \E h \in {ReadBoxHeader(file, fpos, mp4.pos, mp4.limit)} :
       IF ~h.ok
       THEN /\ fpos' = h.fp
            /\ mp4' = Mp4Return(FALSE)
       ELSE IF h.type # Mp4FCC(mp4.stage)
       THEN /\ fpos' = h.fp
            /\ mp4' = [mp4 EXCEPT !.pos = WAdd(mp4.pos, h.size), !.hdrs = {h}]
       ELSE IF mp4.stage = "ftyp"
       THEN /\ fpos' = h.fp
            /\ mp4' = [mp4 EXCEPT !.stage = "moov", !.pos = QW(0), !.hdrs = {h},
                         !.chain = Append(@, [stage |-> "ftyp", off |-> mp4.pos,
                                              size |-> h.size])]
       ELSE
       \E p \in {ReadBoxHeader(file, h.fp, mp4.pos, WAdd(mp4.pos, h.size))} :
       LET pLimit == WAdd(mp4.pos, h.size)
           isMeta == mp4.stage # "covr" /\ p.type = Mp4FCC("meta")
       IN  /\ fpos' = p.fp
           /\ IF ~p.ok \/ (isMeta /\ WLt(pLimit, WAdd(p.payload, QW(4))))
              THEN mp4' = [Mp4Return(FALSE) EXCEPT !.hdrs = {h} \cup {q \in {p} : q.ok}]
              ELSE mp4' = [mp4 EXCEPT
                     !.stage = Mp4Next(mp4.stage),
                     !.pos = IF isMeta THEN WAdd(p.payload, QW(4)) ELSE p.payload,
                     !.limit = pLimit,
                     !.hdrs = {h, p},
                     !.chain = Append(@, [stage |-> mp4.stage, off |-> mp4.pos,
                                          size |-> h.size])]

\* Lines 144 and 165, 302 and 359: the range holds no further box
MP4_ScanEnd ==
    /\ mp4.pc = "scan"
    /\ ~WLe(WAdd(mp4.pos, QW(8)), mp4.limit)
    /\ KeepMP4
    /\ fpos' = fpos
    /\ mp4' = Mp4Return(FALSE)

\* the relaxed size test: a payload of exactly 32 MiB passes
Mp4ImgLenOk_Le(imgLen) == imgLen # QW(0) /\ WLe(imgLen, QW(32 * 1024 * 1024))

\* Line 331: imgLen > 0 && imgLen < (32 * 1024 * 1024)
Mp4ImgLenOk(imgLen) == imgLen # QW(0) /\ WLt(imgLen, QW(32 * 1024 * 1024))

\* a reader that goes on with the next sub-box after a payload has decoded
Mp4AfterDecode_GoOn(st, ok, pos) == [st EXCEPT !.ok = @ \/ ok]

\* Line 343: if (ok) return TRUE
Mp4AfterDecode(st, ok, pos) ==
    IF ok THEN [st EXCEPT !.pc = "done", !.ok = TRUE, !.pos = pos] ELSE st

\* Lines 302-355: one box inside covr
MP4_CovrBox ==
    /\ mp4.pc = "scan"
    /\ mp4.stage = "data"
    /\ WLe(WAdd(mp4.pos, QW(8)), mp4.limit)
    /\ KeepMP4
    /\ \E allocOk \in BOOLEAN, pixelOk \in BOOLEAN,
          h \in {ReadBoxHeader(file, fpos, mp4.pos, mp4.limit)} :
       LET boxEnd == WAdd(mp4.pos, h.size)
           imgOff == WAdd(h.payload, QW(8))
           imgLen == WSub(boxEnd, imgOff)
           len32  == SubSeq(imgLen, 1, 4)
           sized  == /\ h.type = Mp4FCC("data")
                     /\ WLe(imgOff, boxEnd)
                     /\ Mp4ImgLenOk(imgLen)
           rdOk   == ReadAtOk(file, imgOff, len32)
           n      == IF WLt(DW(SigBytes), len32) THEN SigBytes ELSE W2Nat(len32)
           head   == [k \in 1..n |-> FileByte(file, W2Nat(imgOff) + k - 1)]
           isData == h.ok /\ h.type = Mp4FCC("data")
           got    == sized /\ allocOk
           ok     == got /\ rdOk /\ Img_LoadFromMemoryToBitmap(head, len32, pixelOk)
           try    == [hdr |-> h, asked |-> sized, alloc |-> got, read |-> got /\ rdOk,
                      passed |-> got /\ rdOk, decoded |-> ok]
           st1    == [mp4 EXCEPT !.pos = boxEnd, !.hdrs = {h},
                                 !.tries = @ \cup {t \in {try} : isData}]
           st2    == [st1 EXCEPT !.alloc = imgLen,
                                 !.img = [tried |-> TRUE, off |-> imgOff, len |-> imgLen,
                                          boxOff |-> mp4.pos]]
       IN
       IF ~h.ok
       THEN /\ fpos' = h.fp
            /\ mp4' = Mp4Return(FALSE)
       ELSE IF ~sized \/ ~allocOk
       THEN /\ fpos' = h.fp
            /\ mp4' = st1
       ELSE /\ fpos' = ReadAtPos(file, h.fp, imgOff, len32)
            /\ mp4' = Mp4AfterDecode(st2, ok, mp4.pos)

NextMP4 == MP4_Open \/ MP4_ScanBox \/ MP4_ScanEnd \/ MP4_CovrBox

SpecMP4 == InitMP4 /\ [][NextMP4]_vars

(***************************************************************************)
(* Properties of the MP4 extractor                                         *)
(***************************************************************************)
\* C5: every box header the reader accepts at offset off under limit has,
\* in arithmetic without wrap-around, size >= header length (8, or 16 with
\* the 64-bit size), payload offset >= off + 8, and off + size <= limit
C5_AcceptedHeaderFits ==
    \A h \in mp4.hdrs :
        /\ WLe(IF h.ext THEN QW(16) ELSE QW(8), h.size)
        /\ WLe(WAdd(ZExt(h.off, 9), ZExt(QW(8), 9)), ZExt(h.payload, 9))
        /\ WLe(WAdd(ZExt(h.off, 9), ZExt(h.size, 9)), ZExt(h.limit, 9))

\* C8: in every scan of sibling boxes, the scan of covr included, the scan
\* position strictly increases with every box visited, so the scan ends
C8_ScanPositionIncreases ==
    [][(mp4.pc = "scan" /\ mp4'.pc = "scan" /\ mp4'.stage = mp4.stage)
          => WLt(mp4.pos, mp4'.pos)]_vars

\* the bytes of a data box after its header and the 8 type/locale bytes,
\* counted without wrap-around; <<>> when the box has fewer than 8 of them
C11_PayloadLen(h) ==
    LET lead == IF h.ext THEN QW(24) ELSE QW(16)
    IN IF WLe(lead, h.size) THEN WSub(h.size, lead) ELSE <<>>

\* C11: a data sub-box whose image payload (the box bytes after the 8
\* type/locale bytes) has 1 to 32 MiB - 1 bytes is allocated, read and passed
\* to the decoder; a payload of 0 bytes or of 32 MiB or more is never
\* allocated, read or decoded.  The allocation is requested exactly for the
\* payloads in the window; a granted buffer is always filled and decoded
C11_PayloadSizeWindow ==
    \A t \in mp4.tries :
        LET len     == C11_PayloadLen(t.hdr)
            inRange == /\ len # <<>>
                       /\ len # QW(0)
                       /\ WLt(len, QW(32 * 1024 * 1024))
        IN /\ t.asked <=> inRange
           /\ t.alloc => t.read /\ t.passed
           /\ ~inRange => ~t.alloc /\ ~t.read /\ ~t.passed /\ ~t.decoded

\* a payload of 32 MiB - 1 bytes has been passed to the decoder
C11_Witness ==
    \E t \in mp4.tries :
        /\ C11_PayloadLen(t.hdr) = QW(32 * 1024 * 1024 - 1)
        /\ t.passed

\* C16: inside covr the data sub-boxes are tried in file order and the call
\* returns the first one whose payload the decoder accepts; after a decode
\* has succeeded no further sub-box is read: the call is over, with the file
\* pointer behind that payload
C16_FirstDecodedDataWins ==
    /\ \A t \in mp4.tries :
          t.decoded =>
             /\ mp4.pc = "done"
             /\ mp4.ok
             /\ t.hdr.off = mp4.img.boxOff
             /\ fpos = WAdd(mp4.img.off, mp4.img.len)
    /\ (mp4.pc = "done" /\ mp4.ok) =>
          /\ \E t \in mp4.tries : t.decoded /\ t.hdr.off = mp4.img.boxOff
          /\ \A t \in mp4.tries : WLe(t.hdr.off, mp4.img.boxOff)

\* a data sub-box is returned after an earlier one did not decode
C16_Witness ==
    /\ mp4.pc = "done"
    /\ mp4.ok
    /\ \E t \in mp4.tries : t.passed /\ ~t.decoded /\ WLt(t.hdr.off, mp4.img.boxOff)

\* C19: the hops ftyp, moov, udta, meta, ilst, covr are resolved in that
\* order, each child searched only inside the byte range of its parent (the
\* scan never reads a header in front of the parent's payload, and the child
\* found lies inside the parent); when a hop is not found the result is None
C19_HopsInsideParents ==
    LET n == Len(mp4.chain)
    IN /\ n <= 6
       /\ \A i \in 1..n :
             mp4.chain[i].stage = <<"ftyp", "moov", "udta", "meta", "ilst", "covr">>[i]
       /\ \A i \in 3..n :
             /\ WLe(WAdd(ZExt(mp4.chain[i - 1].off, 9), ZExt(QW(8), 9)),
                    ZExt(mp4.chain[i].off, 9))
             /\ WLe(WAdd(ZExt(mp4.chain[i].off, 9), ZExt(mp4.chain[i].size, 9)),
                    WAdd(ZExt(mp4.chain[i - 1].off, 9), ZExt(mp4.chain[i - 1].size, 9)))
       /\ (mp4.pc = "scan" /\ mp4.stage \in {"udta", "meta", "ilst", "covr"}) =>
             WLe(WAdd(mp4.chain[n].off, QW(8)), mp4.pos)
       /\ (mp4.pc = "done" /\ n < 6) => ~mp4.ok

(***************************************************************************)
(* Cover window (cover_window.cpp).  The handlers of the window run one    *)
(* at a time on the message loop; a handler that tries the extractors is   *)
(* at cw.pc in its chain of calls, and the extractor called runs with the  *)
(* steps of its own section.  The track Winamp plays is "a" or "b" (local  *)
(* files of the playlist), "http" (a stream) or "" (none).                 *)
(***************************************************************************)
\* another order: APE before the others
CwOrder_ApeFirst == <<"ape", "id3", "flac", "mp4">>

\* Lines 292-295 and 381-384: ID3v2 > FLAC > MP4 (M4A) > APE
CwOrder == <<"id3", "flac", "mp4", "ape">>

\* an MP3 with an ID3v2 picture, a FLAC stream behind it and an APE tag
TrackAllTags ==
    Id3Header(3, 0, <<0, 0, 0, 33>>)
    \o <<84, 73, 84, 50,  0, 0, 0, 3,  0, 0,  65, 66, 67>>
    \o <<65, 80, 73, 67,  0, 0, 0, 10,  0, 0,  0, 105, 0, 3, 100, 0>> \o JpegStub
    \o FlacSig
    \o FlacBlock(FALSE, 6, PicBody(4, <<0, 0, 0, 0>>, <<>>, <<0, 0, 0, 0>>, <<>>,
                                   <<0, 0, 0, 4>>, JpegStub))
    \o FlacBlock(TRUE, 6, PicBody(3, <<0, 0, 0, 0>>, <<>>, <<0, 0, 0, 0>>, <<>>,
                                  <<0, 0, 0, 4>>, JpegStub))
    \o OneCover \o ApeFooter(DW(Len(OneCover) + 32))

\* an M4A with a cover and an APE tag behind the boxes
TrackMp4Ape ==
    Box(TFtyp, <<>>) \o Moov(Box(TName, <<>>) \o OneData)
    \o OneCover \o ApeFooter(DW(Len(OneCover) + 32))

\* the tracks of the playlist: the extension of the path and the file
CoverTracks ==
    {<<e, Bytes(f)>> :
        e \in {<<46, 109, 112, 51>>, <<46, 109, 52, 97>>},
        f \in {TrackAllTags, TrackMp4Ape, <<>>, Box(TFtyp, <<>>),
               FlacSig \o FlacBlock(TRUE, 0, <<1, 2>>),
               OneCover \o ApeFooter(DW(Len(OneCover) + 32))}}

InitCover ==
    /\ fpos = QW(0)
    /\ id3 = Id3Idle
    /\ ape = ApeIdle
    /\ flac = FlacIdle
    /\ mp4 = Mp4Idle
    /\ ui = [UiIdle EXCEPT !.dlg = TRUE]
    /\ \E t \in CoverTracks, b \in FlacBuilds :
          /\ file = t[2]
          /\ cw = [CwIdle EXCEPT !.ext = t[1], !.build = b, !.track = t[2]]

\* the call of the extractor name on the file of c.path, the cover window
\* going on as c
CwCall(name, c) ==
    /\ cw' = [c EXCEPT !.pc = name, !.calls = Append(@, name)]
    /\ file' = IF c.path = "a" THEN c.track
               ELSE IF c.tagged THEN Bytes(TrackAllTags) ELSE Bytes(<<>>)
    /\ fpos' = QW(0)
    /\ id3' = IF name = "id3" THEN [Id3Idle EXCEPT !.pc = "start"] ELSE Id3Idle
    /\ flac' = IF name = "flac"
               THEN [FlacIdle EXCEPT !.pc = "start", !.ptrW = c.build]
               ELSE FlacIdle
    /\ mp4' = IF name = "mp4" THEN [Mp4Idle EXCEPT !.pc = "start", !.ext = c.ext]
              ELSE Mp4Idle
    /\ ape' = IF name = "ape" THEN [ApeIdle EXCEPT !.pc = "start"] ELSE ApeIdle

\* a reset that keeps the bitmap
SafeResetBitmap_Keep(c) == c

\* Lines 124-130
SafeResetBitmap(c) == [c EXCEPT !.hbm = "", !.hbmPath = ""]

\* Lines 226-231
StopRetry(c) == [c EXCEPT !.retryOn = FALSE, !.retryTries = 0]

\* a timer armed for nine attempts
StartRetry_Nine(c) ==
    IF ~c.view THEN c ELSE [c EXCEPT !.retryOn = TRUE, !.retryTries = 9]

\* Lines 245-249: without a view no timer is set
StartRetry(c) ==
    IF ~c.view THEN c ELSE [c EXCEPT !.retryOn = TRUE, !.retryTries = 8]

\* Lines 269-296: LoadForPathA up to the first extractor, the cover window
\* being in state c
LoadForPathA(c, path) ==
    IF path = "http"
    THEN /\ cw' = SafeResetBitmap([c EXCEPT !.lastPath = path, !.path = path,
                                            !.mode = "load", !.calls = <<>>,
                                            !.rets = <<>>, !.beside = FALSE,
                                            !.attempts = 0])
         /\ UNCHANGED <<file, fpos, id3, ape, flac, mp4>>
    ELSE IF c.hbm # "" /\ path = c.lastPath
    THEN /\ cw' = c
         /\ UNCHANGED <<file, fpos, id3, ape, flac, mp4>>
    ELSE CwCall("id3", [c EXCEPT !.mode = "load", !.path = path, !.calls = <<>>,
                                 !.rets = <<>>, !.beside = FALSE, !.attempts = 0])

\* Lines 358-371: the monitoring timer of the view sees another track
CW_Timer ==
    /\ cw.pc = "idle"
    /\ cw.view
    /\ UNCHANGED ui
    /\ \E cur \in {"a", "b", "http"} :
          /\ cur # cw.lastPath
          /\ LoadForPathA(cw, cur)

\* Lines 545-560: cur is the path of the track Winamp plays, "" when none;
\* the cover window is in state c
CoverView_ReloadFromCurrent(c) ==
    \E cur \in {"", "a", "b", "http"} :
        IF cur # ""
        THEN LoadForPathA(c, cur)
        ELSE /\ cw' = SafeResetBitmap([c EXCEPT !.lastPath = "", !.path = "",
                                                !.mode = "none", !.calls = <<>>,
                                                !.rets = <<>>, !.beside = FALSE,
                                                !.attempts = 0])
             /\ UNCHANGED <<file, fpos, id3, ape, flac, mp4>>

\* Lines 512-540: without a view one is created (CreateWindowExA may return
\* NULL) and the current track is loaded; with a view nothing is done
CoverView_Attach ==
    IF cw.view
    THEN UNCHANGED <<cw, file, fpos, id3, ape, flac, mp4>>
    ELSE \E created \in BOOLEAN :
            CoverView_ReloadFromCurrent([cw EXCEPT !.view = created])

\* Lines 486-492: WM_DESTROY of the view, if there is one
CwDestroy(c) ==
    IF c.view THEN SafeResetBitmap(StopRetry([c EXCEPT !.view = FALSE])) ELSE c

\* the dialog attaches the view
CW_Attach ==
    /\ cw.pc = "idle"
    /\ ui.dlg
    /\ ~cw.view
    /\ UNCHANGED ui
    /\ CoverView_Attach

\* a forced reload of the view
CW_Reload ==
    /\ cw.pc = "idle"
    /\ ui.dlg
    /\ UNCHANGED ui
    /\ CoverView_ReloadFromCurrent(cw)

\* Lines 374-398: the retry timer
CW_RetryTimer ==
    /\ cw.pc = "idle"
    /\ cw.view
    /\ cw.retryOn
    /\ UNCHANGED ui
    /\ IF cw.retryTries > 0 /\ cw.lastPath \notin {"", "http"}
       THEN CwCall("id3", [cw EXCEPT !.mode = "retry", !.path = cw.lastPath,
                                    !.calls = <<>>, !.rets = <<>>, !.beside = FALSE,
                                    !.attempts = @ + 1])
       ELSE /\ cw' = StopRetry(cw)
            /\ UNCHANGED <<file, fpos, id3, ape, flac, mp4>>

\* Lines 233-244: a tagger writes the tags of the file behind path "b" while
\* the retry timer runs for it
CW_TagWrite ==
    /\ cw.pc = "idle"
    /\ cw.retryOn
    /\ cw.lastPath = "b"
    /\ ~cw.tagged
    /\ cw' = [cw EXCEPT !.tagged = TRUE]
    /\ UNCHANGED <<file, fpos, id3, ape, flac, mp4, ui>>

\* the extractor the handler has called has returned
CwReturned ==
    \/ cw.pc = "id3" /\ id3.pc = "done"
    \/ cw.pc = "flac" /\ flac.pc = "done"
    \/ cw.pc = "mp4" /\ mp4.pc = "done"
    \/ cw.pc = "ape" /\ ape.pc = "done"

CwResult ==
    \/ cw.pc = "id3" /\ id3.ok
    \/ cw.pc = "flac" /\ flac.ok
    \/ cw.pc = "mp4" /\ mp4.ok
    \/ cw.pc = "ape" /\ ape.ok

\* Lines 292-295 and 381-384: the extractor has failed, the next is called
CW_NextExtractor ==
    /\ cw.pc # "idle"
    /\ CwReturned
    /\ ~CwResult
    /\ Len(cw.calls) < Len(CwOrder)
    /\ UNCHANGED ui
    /\ CwCall(CwOrder[Len(cw.calls) + 1], [cw EXCEPT !.rets = Append(@, FALSE)])

\* Lines 297-322 and 385-396: the chain of calls is over
CW_Finish ==
    /\ cw.pc # "idle"
    /\ CwReturned
    /\ CwResult \/ Len(cw.calls) = Len(CwOrder)
    /\ UNCHANGED <<file, fpos, id3, ape, flac, mp4, ui>>
    /\ LET c == [cw EXCEPT !.pc = "idle", !.rets = Append(@, CwResult)]
       IN IF CwResult
          THEN cw' = StopRetry([SafeResetBitmap(c) EXCEPT
                                    !.hbm = cw.pc, !.hbmPath = cw.path,
                                    !.lastPath = IF cw.mode = "load" THEN cw.path ELSE @])
          ELSE IF cw.mode = "load"
          THEN \E found \in BOOLEAN :
                  cw' = IF found
                        THEN StopRetry([SafeResetBitmap(c) EXCEPT
                                            !.beside = TRUE, !.hbm = "beside",
                                            !.hbmPath = cw.path, !.lastPath = cw.path])
                        ELSE StartRetry([SafeResetBitmap(c) EXCEPT
                                            !.beside = TRUE, !.lastPath = cw.path])
          ELSE cw' = IF cw.retryTries - 1 <= 0
                     THEN StopRetry(c)
                     ELSE [c EXCEPT !.retryTries = @ - 1]

NextCover ==
    \/ CW_Attach \/ CW_Timer \/ CW_Reload \/ CW_RetryTimer \/ CW_TagWrite
    \/ CW_NextExtractor \/ CW_Finish
    \/ NextID3 \/ NextFLAC \/ NextMP4 \/ NextAPE

SpecCover == InitCover /\ [][NextCover]_vars

(***************************************************************************)
(* UI host (ui_host.cpp).  The window procedures of Winamp's window and    *)
(* of the album-art dialog run on one message loop, one handler at a time. *)
(* Closing the dialog destroys the view with it and drops the messages     *)
(* still in the dialog's queue.                                            *)
(***************************************************************************)
MaxPending == 3

\* a request that posts each time
RequestCoverRefreshAsync_Each(u) ==
    IF u.dlg THEN [u EXCEPT !.refreshPosted = 1, !.queued = @ + 1]
    ELSE u

\* Lines 492-504
RequestCoverRefreshAsync(u) ==
    IF u.dlg
    THEN IF u.refreshPosted = 0
         THEN [u EXCEPT !.refreshPosted = 1, !.queued = @ + 1]
         ELSE [u EXCEPT !.refreshPosted = 1]
    ELSE u

\* Lines 507-518 and 700-711: Winamp's window receives WM_WA_IPC with
\* IPC_PLAYING_FILE, IPC_PLAYLIST_MODIFIED or another code, or WM_APT_REFRESH
UI_WinampMsg ==
    /\ cw.pc = "idle"
    /\ ui.owed < MaxPending
    /\ ui.queued < MaxPending
    /\ \E m \in {"playing", "playlist", "other", "refresh"} :
          ui' = IF m = "other" THEN ui
                ELSE [RequestCoverRefreshAsync(ui) EXCEPT
                         !.owed = IF ui.dlg /\ m # "refresh" THEN @ + 1 ELSE @]
    /\ UNCHANGED <<file, fpos, id3, ape, flac, mp4, cw>>

\* Lines 535-574: the menu command closes the window when it is open and
\* opens it otherwise.  Opening is UIHost_Init (lines 960-1066, also run
\* when the plugin starts with the window open): it gives up without a
\* dialog when the embed state cannot be allocated, when Winamp hands out
\* no embed window, when the window is not to be open or when CreateDialog
\* returns NULL; a dialog that is created attaches the view in its
\* WM_INITDIALOG (line 777).  Closing destroys the dialog and with it the
\* view, if there is one.
UI_Command ==
    /\ cw.pc = "idle"
    /\ IF ui.dlg
       THEN /\ ui' = [ui EXCEPT !.dlg = FALSE, !.queued = 0, !.owed = 0]
            /\ cw' = CwDestroy(cw)
            /\ UNCHANGED <<file, fpos, id3, ape, flac, mp4>>
       ELSE \E dlgCreated \in BOOLEAN :
               IF dlgCreated
               THEN /\ ui' = [ui EXCEPT !.dlg = TRUE]
                    /\ CoverView_Attach
               ELSE UNCHANGED <<ui, cw, file, fpos, id3, ape, flac, mp4>>

\* Lines 839-868: WM_CLOSE and WM_DESTROY of the dialog
UI_DlgClose ==
    /\ cw.pc = "idle"
    /\ ui.dlg
    /\ ui' = [ui EXCEPT !.dlg = FALSE, !.queued = 0, !.owed = 0]
    /\ cw' = CwDestroy(cw)
    /\ UNCHANGED <<file, fpos, id3, ape, flac, mp4>>

\* Lines 788-794: the dialog handles a WM_APT_REFRESH of its queue
UI_DlgRefresh ==
    /\ cw.pc = "idle"
    /\ ui.dlg
    /\ ui.queued > 0
    /\ ui' = [ui EXCEPT !.queued = @ - 1, !.refreshPosted = 0, !.owed = 0]
    /\ CoverView_ReloadFromCurrent(cw)

\* the plugin is loaded and UIHost_Init has not run yet: no dialog, no view
InitUI ==
    /\ fpos = QW(0)
    /\ id3 = Id3Idle
    /\ ape = ApeIdle
    /\ flac = FlacIdle
    /\ mp4 = Mp4Idle
    /\ ui = UiIdle
    /\ \E t \in CoverTracks :
          /\ t[2] \in {Bytes(TrackMp4Ape), Bytes(FlacSig \o FlacBlock(TRUE, 0, <<1, 2>>))}
          /\ file = t[2]
          /\ cw = [CwIdle EXCEPT !.ext = t[1], !.track = t[2]]

NextUI ==
    \/ UI_WinampMsg \/ UI_Command \/ UI_DlgClose \/ UI_DlgRefresh
    \/ CW_Timer \/ CW_RetryTimer \/ CW_TagWrite \/ CW_NextExtractor \/ CW_Finish
    \/ NextID3 \/ NextFLAC \/ NextMP4 \/ NextAPE

SpecUI == InitUI /\ [][NextUI]_vars

(***************************************************************************)
(* Properties of the cover window                                          *)
(***************************************************************************)
\* C12: for a file path the extractors are called in the order ID3v2, FLAC,
\* MP4, APE; an extractor is called only after all those before it failed,
\* the bitmap kept is that of the first extractor that succeeded, and the
\* image beside the file is looked for only when all four have failed
C12_FixedOrderFirstWins ==
    LET n == Len(cw.calls)
        r == Len(cw.rets)
    IN /\ n <= 4
       /\ cw.calls = SubSeq(<<"id3", "flac", "mp4", "ape">>, 1, n)
       /\ r <= n
       /\ cw.pc # "idle" => r = n - 1
       /\ \A i \in 1..r : cw.rets[i] => i = n
       /\ (cw.pc = "idle" /\ r > 0) =>
              /\ r = n
              /\ cw.rets[r] => cw.hbm = cw.calls[r]
              /\ ~cw.rets[r] => n = 4 /\ cw.hbm \in {"", "beside"}
       /\ cw.beside => /\ n = 4
                       /\ r = 4
                       /\ \A i \in 1..4 : ~cw.rets[i]

\* FLAC succeeded after ID3v2 failed, on a file whose APE tag has a cover too
C12_Witness ==
    /\ cw.pc = "idle"
    /\ cw.calls = <<"id3", "flac">>
    /\ cw.rets = <<FALSE, TRUE>>
    /\ cw.hbm = "flac"
    /\ file = Bytes(TrackAllTags)


\* C29: the retry counter stays in 0..8; the retry timer makes at most 8
\* extraction attempts after a load that found no artwork, each failed
\* attempt taking one from the counter, and is stopped after the eighth; an
\* attempt that succeeds stops the timer and leaves its bitmap
C29_RetryBoundedByEight ==
    /\ cw.retryTries \in 0..8
    /\ cw.attempts \in 0..8
    /\ (cw.mode = "retry" /\ cw.retryOn) =>
           cw.attempts + cw.retryTries = (IF cw.pc = "idle" THEN 8 ELSE 9)
    /\ (cw.mode = "retry" /\ cw.pc = "idle" /\ cw.attempts = 8) => ~cw.retryOn
    /\ (cw.mode = "retry" /\ cw.pc = "idle" /\ cw.rets # <<>> /\ cw.rets[Len(cw.rets)]) =>
           /\ ~cw.retryOn
           /\ cw.retryTries = 0
           /\ cw.hbm = cw.calls[Len(cw.calls)]

\* the eighth attempt has failed and the timer is stopped
C29_Witness ==
    /\ cw.pc = "idle"
    /\ cw.mode = "retry"
    /\ cw.attempts = 8
    /\ cw.rets = <<FALSE, FALSE, FALSE, FALSE>>
    /\ ~cw.retryOn
    /\ cw.hbm = ""

\* C30: a bitmap that is displayed was loaded for the path stored as the last
\* path, and after a handled event the last path is the path of that event
\* (the current track of a poll or reload, the retried track of a retry tick)
C30_BitmapBelongsToLastPath ==
    /\ cw.hbm # "" => cw.hbmPath = cw.lastPath /\ cw.lastPath \in {"a", "b"}
    /\ cw.pc = "idle" => cw.lastPath = cw.path

\* the track "b" is loaded with no artwork while the file of "a" has artwork
\* in its tags
C30_Witness ==
    /\ cw.pc = "idle"
    /\ cw.mode = "load"
    /\ cw.lastPath = "b"
    /\ cw.hbm = ""
    /\ cw.track = Bytes(TrackAllTags)
    /\ Len(cw.rets) = 4

(***************************************************************************)
(* Properties of the UI host                                               *)
(***************************************************************************)
\* C27: a refresh that was requested by a playing-file or playlist-modified
\* event while the dialog exists, and that the dialog has not handled yet,
\* has its WM_APT_REFRESH in the dialog's queue (so that fair delivery leads
\* to its handling)
C27_RequestedRefreshIsPending ==
    (ui.dlg /\ ui.owed > 0) => ui.queued > 0

\* C28: at most one WM_APT_REFRESH is in the dialog's queue, and none when
\* the flag refreshPosted is clear
C28_OnePendingRefresh ==
    /\ ui.queued <= 1
    /\ ui.queued = 1 => ui.dlg /\ ui.refreshPosted = 1

\* three events have arrived and one message is in the queue
C28_Witness ==
    /\ ui.dlg
    /\ ui.owed = 3
    /\ ui.queued = 1

=============================================================================
